---- MODULE Spec2Model ----
(***************************************************************************)
(* A model of netbird_terraformer: the name sanitizer and reference        *)
(* builder of lib/utils.go, the four resource handlers of resources/ and   *)
(* the orchestration of main().                                            *)
(*                                                                         *)
(* A Go string is modelled as a sequence of one-character strings, so that *)
(* replacing, trimming, case folding and concatenation are computed        *)
(* character by character.  The tokens "U+00C9" and "U+00E9" stand for the *)
(* single non-ASCII runes E-acute (upper case) and e-acute (lower case).   *)
(***************************************************************************)
EXTENDS Integers, Sequences, FiniteSets, TLC

\* ------------------------------------------------------------------ bounds

\* Longest string drawn as an input of the pure string functions.
MaxLen == 3

\* Most records in one answer of the management API.
MaxItems == 2

\* Most group references in one record (a user's auto-groups, a rule's
\* sources or destinations).
MaxRefs == 2

\* ---------------------------------------------------------- string basics

Digits == {"0", "1", "2", "3", "4", "5", "6", "7", "8", "9"}

AsciiLower == {"a", "b", "c", "d", "e", "f", "g", "h", "i", "j", "k", "l", "m",
               "n", "o", "p", "q", "r", "s", "t", "u", "v", "w", "x", "y", "z"}

UpperChars == <<"A", "B", "C", "D", "E", "F", "G", "H", "I", "J", "K", "L", "M",
                "N", "O", "P", "Q", "R", "S", "T", "U", "V", "W", "X", "Y", "Z",
                "U+00C9">>

LowerChars == <<"a", "b", "c", "d", "e", "f", "g", "h", "i", "j", "k", "l", "m",
                "n", "o", "p", "q", "r", "s", "t", "u", "v", "w", "x", "y", "z",
                "U+00E9">>

\* unicode.ToLower on one rune.
ToLowerChar(c) ==
    IF \E i \in 1..Len(UpperChars) : UpperChars[i] = c
    THEN LowerChars[CHOOSE i \in 1..Len(UpperChars) : UpperChars[i] = c]
    ELSE c

\* Mutant of ToLower: the case folding is left out.
ToLower_Omitted(s) == s

\* strings.ToLower
ToLower(s) == [i \in 1..Len(s) |-> ToLowerChar(s[i])]

\* strings.ReplaceAll(s, old, new) for a one-character old; new is a string
\* (one character, or empty to delete).
RECURSIVE ReplaceAll(_, _, _)
ReplaceAll(s, old, new) ==
    IF s = <<>> THEN <<>>
    ELSE (IF Head(s) = old THEN new ELSE <<Head(s)>>) \o ReplaceAll(Tail(s), old, new)

\* strings.Contains(s, "__")
ContainsDouble(s) == \E i \in 1..(Len(s) - 1) : s[i] = "_" /\ s[i + 1] = "_"

\* strings.ReplaceAll(s, "__", "_"): non-overlapping matches, left to right.
RECURSIVE ReplaceDouble(_)
ReplaceDouble(s) ==
    IF Len(s) < 2 THEN s
    ELSE IF s[1] = "_" /\ s[2] = "_"
         THEN <<"_">> \o ReplaceDouble(Tail(Tail(s)))
         ELSE <<s[1]>> \o ReplaceDouble(Tail(s))

\* Mutant of CollapseUnderscores: one ReplaceAll pass instead of the loop.
CollapseUnderscores_OnePass(s) == ReplaceDouble(s)

\* for strings.Contains(name, "__") { name = strings.ReplaceAll(name, "__", "_") }
RECURSIVE CollapseUnderscores(_)
CollapseUnderscores(s) ==
    IF ContainsDouble(s) THEN CollapseUnderscores(ReplaceDouble(s)) ELSE s

RECURSIVE TrimLeft(_)
TrimLeft(s) == IF s /= <<>> /\ Head(s) = "_" THEN TrimLeft(Tail(s)) ELSE s

RECURSIVE TrimRight(_)
TrimRight(s) ==
    IF s /= <<>> /\ s[Len(s)] = "_" THEN TrimRight(SubSeq(s, 1, Len(s) - 1)) ELSE s

\* strings.Trim(s, "_")
TrimUnderscores(s) == TrimRight(TrimLeft(s))

S_resource_ == <<"r", "e", "s", "o", "u", "r", "c", "e", "_">>
S_unnamed_resource ==
    <<"u", "n", "n", "a", "m", "e", "d", "_", "r", "e", "s", "o", "u", "r", "c", "e">>
S_netbird_ == <<"n", "e", "t", "b", "i", "r", "d", "_">>
S_dot_id == <<".", "i", "d">>
S_group == <<"g", "r", "o", "u", "p">>
S_user == <<"u", "s", "e", "r">>
S_policy == <<"p", "o", "l", "i", "c", "y">>
S_route == <<"r", "o", "u", "t", "e">>
S_group_ == <<"g", "r", "o", "u", "p", "_">>
S_policy_ == <<"p", "o", "l", "i", "c", "y", "_">>
S_route_ == <<"r", "o", "u", "t", "e", "_">>
S_user_ == <<"u", "s", "e", "r", "_">>
S_admin_user_ == <<"a", "d", "m", "i", "n", "_", "u", "s", "e", "r", "_">>
S_provider == <<"p", "r", "o", "v", "i", "d", "e", "r">>
S_admin == <<"a", "d", "m", "i", "n">>
S_group_mappings ==
    <<"g", "r", "o", "u", "p", "_", "m", "a", "p", "p", "i", "n", "g", "s">>
S_import == <<"i", "m", "p", "o", "r", "t">>

\* ------------------------------------------------------------ lib/utils.go

\* Steps 1 and 2 of SanitizeResourceName: the nine strings.ReplaceAll calls.
ReplaceSpecials(input) ==
    LET n1 == ReplaceAll(input, " ", <<"_">>)
        n2 == ReplaceAll(n1, "-", <<"_">>)
        n3 == ReplaceAll(n2, ".", <<"_">>)
        n4 == ReplaceAll(n3, "/", <<"_">>)
        n5 == ReplaceAll(n4, "@", <<"_">>)
        n6 == ReplaceAll(n5, "(", <<>>)
        n7 == ReplaceAll(n6, ")", <<>>)
        n8 == ReplaceAll(n7, ",", <<>>)
    IN  ReplaceAll(n8, ":", <<>>)

\* if len(name) > 0 && name[0] is a digit { name = "resource_" + name }
PrefixDigit(name) ==
    IF Len(name) > 0 /\ name[1] \in Digits THEN S_resource_ \o name ELSE name

\* if name == "" { name = "unnamed_resource" }
EmptyFallback(name) == IF name = <<>> THEN S_unnamed_resource ELSE name

\* Mutant of SanitizeResourceName: the digit prefix is decided before the trim.
SanitizeResourceName_PrefixBeforeTrim(input) ==
    EmptyFallback(TrimUnderscores(PrefixDigit(CollapseUnderscores(
        ToLower(ReplaceSpecials(input))))))

\* Mutant of SanitizeResourceName: the empty fallback is decided before the trim.
SanitizeResourceName_FallbackBeforeTrim(input) ==
    PrefixDigit(TrimUnderscores(EmptyFallback(CollapseUnderscores(
        ToLower(ReplaceSpecials(input))))))

SanitizeResourceName(input) ==
    EmptyFallback(PrefixDigit(TrimUnderscores(CollapseUnderscores(
        ToLower(ReplaceSpecials(input))))))

Backslash == "\\"
DoubleQuote == "\""
Newline == "\n"
Tab == "\t"

\* Mutant of EscapeString: the backslashes are escaped last.
EscapeString_BackslashLast(s) ==
    LET s1 == ReplaceAll(s, DoubleQuote, <<Backslash, DoubleQuote>>)
        s2 == ReplaceAll(s1, Newline, <<Backslash, "n">>)
        s3 == ReplaceAll(s2, Tab, <<Backslash, "t">>)
    IN  ReplaceAll(s3, Backslash, <<Backslash, Backslash>>)

\* EscapeString: four replacements, one after the other.
EscapeString(s) ==
    LET s1 == ReplaceAll(s, Backslash, <<Backslash, Backslash>>)
        s2 == ReplaceAll(s1, DoubleQuote, <<Backslash, DoubleQuote>>)
        s3 == ReplaceAll(s2, Newline, <<Backslash, "n">>)
    IN  ReplaceAll(s3, Tab, <<Backslash, "t">>)

\* Mutant of CreateTerraformReference: the ".id" suffix is left out.
CreateTerraformReference_NoSuffix(resourceType, resourceName) ==
    S_netbird_ \o resourceType \o <<".">> \o resourceName

CreateTerraformReference(resourceType, resourceName) ==
    S_netbird_ \o resourceType \o <<".">> \o resourceName \o S_dot_id

\* --------------------------------------------------- the Writer (lib)

\* TerraformWriter.AddResource: one more resource at the end of the
\* accumulated list, whatever is already there.
AddResource(rs, resourceType, name, attributes) ==
    Append(rs, [Type |-> resourceType, Name |-> name, Attributes |-> attributes,
                IsData |-> FALSE])

\* A Go map[string]string as a function on the set of its keys.
EmptyMap == [k \in {} |-> <<>>]

\* m[key] = value
MapPut(m, key, value) ==
    [k \in (DOMAIN m) \cup {key} |-> IF k = key THEN value ELSE m[k]]

\* An optional attribute: the key is set only when the condition holds.
AttrIf(cond, key, value) == IF cond THEN key :> value ELSE EmptyMap

\* ------------------------------------------------- resources/groups.go

\* Mutant of GroupResourceName: the ID is made part of every name, so that
\* no two groups are named alike.
GroupResourceName_WithID(name, id) ==
    SanitizeResourceName(name) \o <<"_">> \o id

\* Mutant of GroupResourceName: SanitizeResourceName's own fallback does not
\* come first, and a name of which nothing is left is replaced by the ID.
GroupResourceName_FallbackTaken(name, id) ==
    IF TrimUnderscores(CollapseUnderscores(ToLower(ReplaceSpecials(name)))) = <<>>
    THEN S_group_ \o id
    ELSE SanitizeResourceName(name)

\* generateGroupResource's choice of the resource name.
GroupResourceName(name, id) ==
    LET resourceName == SanitizeResourceName(name)
    IN  IF resourceName = <<>> THEN S_group_ \o id ELSE resourceName

NonEmptyID(r) == r.ID /= <<>>

\* Mutant of GroupAttributes: the resources key is set whenever the group
\* has nested resource entries.
GroupAttributes_EmptyListKept(group) ==
    LET kept == SelectSeq(group.Resources, NonEmptyID)
        resourceIDs == [i \in 1..Len(kept) |-> kept[i].ID]
    IN  [id |-> group.ID, name |-> group.Name]
        @@ AttrIf(Len(group.Resources) > 0, "resources", resourceIDs)

\* The attributes generateGroupResource builds.
GroupAttributes(group) ==
    LET kept == SelectSeq(group.Resources, NonEmptyID)
        resourceIDs == [i \in 1..Len(kept) |-> kept[i].ID]
    IN  [id |-> group.ID, name |-> group.Name]
        @@ AttrIf(Len(group.Resources) > 0 /\ Len(resourceIDs) > 0,
                  "resources", resourceIDs)

\* GroupsHandler.ImportAndGenerate's loop over the fetched groups, from
\* record i on: st holds the Writer's resources and idToResourceName.
RECURSIVE GroupsLoop(_, _, _)
GroupsLoop(groups, i, st) ==
    IF i > Len(groups) THEN st
    ELSE LET group == groups[i]
             resourceName == GroupResourceName(group.Name, group.ID)
         IN  GroupsLoop(groups, i + 1,
                 [resources |-> AddResource(st.resources, S_group, resourceName,
                                            GroupAttributes(group)),
                  mapping |-> MapPut(st.mapping, group.ID, resourceName)])

\* Mutant of UserSkipped: only the first skip test is made.
UserSkipped_OneTest(user) == user.Email = <<>> /\ ~user.IsServiceUser

\* The two skip tests of UsersHandler.ImportAndGenerate.
UserSkipped(user) ==
    \/ user.Email = <<>> /\ ~user.IsServiceUser
    \/ user.IsServiceUser /\ user.Email = <<>> /\ user.Name = <<>>

\* Mutant of UserResourceName: the role is compared without regard to case.
UserResourceName_RoleAnyCase(user) ==
    LET first == IF user.Name /= <<>> THEN SanitizeResourceName(user.Name) ELSE <<>>
    IN  IF first = <<>>
        THEN IF ToLower(user.Role) = S_admin
             THEN SanitizeResourceName(S_admin_user_ \o user.ID)
             ELSE SanitizeResourceName(S_user_ \o user.ID)
        ELSE first

\* generateUserResource's choice of the resource name.
UserResourceName(user) ==
    LET first == IF user.Name /= <<>> THEN SanitizeResourceName(user.Name) ELSE <<>>
    IN  IF first = <<>>
        THEN IF user.Role = S_admin
             THEN SanitizeResourceName(S_admin_user_ \o user.ID)
             ELSE SanitizeResourceName(S_user_ \o user.ID)
        ELSE first

\* Mutant of AutoGroupRefs: an ID missing from the mapping is dropped.
AutoGroupRefs_DropUnmapped(autoGroups, groupMapping) ==
    LET InMapping(groupID) == groupID \in DOMAIN groupMapping
        kept == SelectSeq(autoGroups, InMapping)
    IN  [i \in 1..Len(kept) |-> CreateTerraformReference(S_group, groupMapping[kept[i]])]

\* generateUserResource's conversion of the auto-group IDs.
AutoGroupRefs(autoGroups, groupMapping) ==
    [i \in 1..Len(autoGroups) |->
        IF autoGroups[i] \in DOMAIN groupMapping
        THEN CreateTerraformReference(S_group, groupMapping[autoGroups[i]])
        ELSE autoGroups[i]]

\* The attributes UsersHandler.generateUserResource builds.
UserAttributes(user, groupMapping) ==
    [id |-> user.ID,
     is_service_user |-> IF user.IsServiceUser THEN TRUE ELSE FALSE,
     is_blocked |-> IF user.IsBlocked THEN TRUE ELSE FALSE]
    @@ AttrIf(user.Email /= <<>>, "email", user.Email)
    @@ AttrIf(user.Name /= <<>>, "name", user.Name)
    @@ AttrIf(user.Role /= <<>>, "role", user.Role)
    @@ AttrIf(Len(user.AutoGroups) > 0, "auto_groups",
              AutoGroupRefs(user.AutoGroups, groupMapping))

\* UsersHandler.ImportAndGenerate's loop over the fetched users.
RECURSIVE UsersLoop(_, _, _, _)
UsersLoop(users, i, groupMapping, rs) ==
    IF i > Len(users) THEN rs
    ELSE LET user == users[i]
         IN  UsersLoop(users, i + 1, groupMapping,
                 IF UserSkipped(user) THEN rs
                 ELSE AddResource(rs, S_user, UserResourceName(user),
                                  UserAttributes(user, groupMapping)))

\* ----------------------------------------------- resources/policies.go

\* generatePolicyResource's choice of the resource name.
PolicyResourceName(policy) ==
    LET resourceName == SanitizeResourceName(policy.Name)
    IN  IF resourceName = <<>> THEN S_policy_ \o policy.ID ELSE resourceName

\* Mutant of RuleGroupRefs: an ID missing from the mapping is kept raw, as
\* the user generator does.
RuleGroupRefs_RawFallback(infos, groupMapping) ==
    [i \in 1..Len(infos) |->
        IF infos[i].ID \in DOMAIN groupMapping
        THEN CreateTerraformReference(S_group, groupMapping[infos[i].ID])
        ELSE infos[i].ID]

\* generatePolicyResource's conversion of a rule's sources or destinations.
RuleGroupRefs(infos, groupMapping) ==
    [i \in 1..Len(infos) |->
        IF infos[i].ID \in DOMAIN groupMapping
        THEN CreateTerraformReference(S_group, groupMapping[infos[i].ID])
        ELSE CreateTerraformReference(S_group, SanitizeResourceName(infos[i].Name))]

\* A *Resource that is not nil, as the {id, type} object.
ResourceObject(ref) == [id |-> ref[1].ID, type |-> ref[1].Type]

\* Mutant of RuleMap: the ports key is set for a rule without ports too.
RuleMap_PortsAlways(rule, groupMapping) ==
    [name |-> rule.Name, description |-> rule.Description, enabled |-> rule.Enabled,
     action |-> rule.Action, bidirectional |-> rule.Bidirectional,
     protocol |-> rule.Protocol, ports |-> rule.Ports]
    @@ AttrIf(Len(rule.PortRanges) > 0, "port_ranges",
              [i \in 1..Len(rule.PortRanges) |->
                  [start |-> rule.PortRanges[i].Start, end |-> rule.PortRanges[i].End]])
    @@ AttrIf(Len(rule.Sources) > 0, "sources",
              RuleGroupRefs(rule.Sources, groupMapping))
    @@ AttrIf(Len(rule.Destinations) > 0, "destinations",
              RuleGroupRefs(rule.Destinations, groupMapping))
    @@ AttrIf(rule.SourceResource /= <<>>, "source_resource",
              ResourceObject(rule.SourceResource))
    @@ AttrIf(rule.DestinationResource /= <<>>, "destination_resource",
              ResourceObject(rule.DestinationResource))

\* The ruleMap generatePolicyResource builds for one rule.
RuleMap(rule, groupMapping) ==
    [name |-> rule.Name, description |-> rule.Description, enabled |-> rule.Enabled,
     action |-> rule.Action, bidirectional |-> rule.Bidirectional,
     protocol |-> rule.Protocol]
    @@ AttrIf(Len(rule.Ports) > 0, "ports", rule.Ports)
    @@ AttrIf(Len(rule.PortRanges) > 0, "port_ranges",
              [i \in 1..Len(rule.PortRanges) |->
                  [start |-> rule.PortRanges[i].Start, end |-> rule.PortRanges[i].End]])
    @@ AttrIf(Len(rule.Sources) > 0, "sources",
              RuleGroupRefs(rule.Sources, groupMapping))
    @@ AttrIf(Len(rule.Destinations) > 0, "destinations",
              RuleGroupRefs(rule.Destinations, groupMapping))
    @@ AttrIf(rule.SourceResource /= <<>>, "source_resource",
              ResourceObject(rule.SourceResource))
    @@ AttrIf(rule.DestinationResource /= <<>>, "destination_resource",
              ResourceObject(rule.DestinationResource))

\* The attributes PoliciesHandler.generatePolicyResource builds.
PolicyAttributes(policy, groupMapping) ==
    [id |-> policy.ID, name |-> policy.Name, description |-> policy.Description,
     enabled |-> policy.Enabled]
    @@ AttrIf(Len(policy.SourcePostureChecks) > 0, "source_posture_checks",
              policy.SourcePostureChecks)
    @@ AttrIf(Len(policy.Rules) > 0, "rules",
              [i \in 1..Len(policy.Rules) |-> RuleMap(policy.Rules[i], groupMapping)])

\* PoliciesHandler.ImportAndGenerate's loop over the fetched policies.
RECURSIVE PoliciesLoop(_, _, _, _)
PoliciesLoop(policies, i, groupMapping, rs) ==
    IF i > Len(policies) THEN rs
    ELSE PoliciesLoop(policies, i + 1, groupMapping,
             AddResource(rs, S_policy, PolicyResourceName(policies[i]),
                         PolicyAttributes(policies[i], groupMapping)))

\* ------------------------------------------------- resources/routes.go

\* RoutesHandler.ImportAndGenerate's own ID-to-name map, from group i on.
RECURSIVE RouteGroupMapping(_, _, _)
RouteGroupMapping(groups, i, m) ==
    IF i > Len(groups) THEN m
    ELSE RouteGroupMapping(groups, i + 1,
             MapPut(m, groups[i].ID, SanitizeResourceName(groups[i].Name)))

\* generateRouteResource's choice of the resource name.
RouteResourceName(route) ==
    LET first == SanitizeResourceName(route.NetworkID)
        second == IF first = <<>> THEN SanitizeResourceName(route.Network) ELSE first
    IN  IF second = <<>> THEN S_route_ \o route.ID ELSE second

\* Mutant of RouteGroupRefs: an ID missing from the map is kept raw, as the
\* user generator does.
RouteGroupRefs_RawFallback(groupIDs, groupIDToResourceName) ==
    [i \in 1..Len(groupIDs) |->
        IF groupIDs[i] \in DOMAIN groupIDToResourceName
        THEN CreateTerraformReference(S_group, groupIDToResourceName[groupIDs[i]])
        ELSE groupIDs[i]]

\* generateRouteResource's conversion of Groups or PeerGroups: only the IDs
\* in the map give a reference.
RouteGroupRefs(groupIDs, groupIDToResourceName) ==
    LET InMapping(groupID) == groupID \in DOMAIN groupIDToResourceName
        kept == SelectSeq(groupIDs, InMapping)
    IN  [i \in 1..Len(kept) |->
            CreateTerraformReference(S_group, groupIDToResourceName[kept[i]])]

\* Mutant of RouteAttributes: an empty list of references is left out, as
\* the other kinds do.
RouteAttributes_OmitEmpty(route, groupIDToResourceName) ==
    [id |-> route.ID, description |-> route.Description,
     network_id |-> route.NetworkID, network |-> route.Network, peer |-> route.Peer,
     metric |-> route.Metric, masquerade |-> route.Masquerade,
     enabled |-> route.Enabled, keep_route |-> route.KeepRoute]
    @@ AttrIf(RouteGroupRefs(route.PeerGroups, groupIDToResourceName) /= <<>>,
              "peer_groups", RouteGroupRefs(route.PeerGroups, groupIDToResourceName))
    @@ AttrIf(RouteGroupRefs(route.Groups, groupIDToResourceName) /= <<>>,
              "groups", RouteGroupRefs(route.Groups, groupIDToResourceName))

\* The attributes generateRouteResource builds.
RouteAttributes(route, groupIDToResourceName) ==
    [id |-> route.ID, description |-> route.Description,
     network_id |-> route.NetworkID, network |-> route.Network, peer |-> route.Peer,
     peer_groups |-> RouteGroupRefs(route.PeerGroups, groupIDToResourceName),
     metric |-> route.Metric, masquerade |-> route.Masquerade,
     enabled |-> route.Enabled,
     groups |-> RouteGroupRefs(route.Groups, groupIDToResourceName),
     keep_route |-> route.KeepRoute]

\* RoutesHandler.ImportAndGenerate's loop over the fetched routes.
RECURSIVE RoutesLoop(_, _, _, _)
RoutesLoop(routes, i, groupIDToResourceName, rs) ==
    IF i > Len(routes) THEN rs
    ELSE RoutesLoop(routes, i + 1, groupIDToResourceName,
             AddResource(rs, S_route, RouteResourceName(routes[i]),
                         RouteAttributes(routes[i], groupIDToResourceName)))

\* --------------------------------------------------------- generators.go
\* The generators of the earlier main(), which the repository still holds.

\* The sanitizer of package main, as the specification describes it: the
\* same transformation as lib.SanitizeResourceName.
sanitizeResourceName(input) == SanitizeResourceName(input)

\* GroupsGenerator.generateGroupResource's choice of the resource name.
LegacyGroupResourceName(name, id) ==
    LET resourceName == sanitizeResourceName(name)
    IN  IF resourceName = <<>> THEN S_group_ \o id ELSE resourceName

\* The attributes GroupsGenerator.generateGroupResource builds.
LegacyGroupAttributes(group) ==
    LET kept == SelectSeq(group.Resources, NonEmptyID)
        resourceIDs == [i \in 1..Len(kept) |-> kept[i].ID]
    IN  [id |-> group.ID, name |-> group.Name]
        @@ AttrIf(Len(group.Resources) > 0 /\ Len(resourceIDs) > 0,
                  "resources", resourceIDs)

\* GroupsGenerator.InitResources's loop over the fetched groups.
RECURSIVE LegacyGroupsLoop(_, _, _)
LegacyGroupsLoop(groups, i, st) ==
    IF i > Len(groups) THEN st
    ELSE LET group == groups[i]
             resourceName == LegacyGroupResourceName(group.Name, group.ID)
         IN  LegacyGroupsLoop(groups, i + 1,
                 [resources |-> AddResource(st.resources, S_group, resourceName,
                                            LegacyGroupAttributes(group)),
                  mapping |-> MapPut(st.mapping, group.ID, resourceName)])

\* The two skip tests of UsersGenerator.InitResourcesWithGroupMapping.
LegacyUserSkipped(user) ==
    \/ user.Email = <<>> /\ ~user.IsServiceUser
    \/ user.IsServiceUser /\ user.Email = <<>> /\ user.Name = <<>>

\* UsersGenerator.generateUserResource's choice of the resource name.
LegacyUserResourceName(user) ==
    LET first == IF user.Name /= <<>> THEN sanitizeResourceName(user.Name) ELSE <<>>
    IN  IF first = <<>>
        THEN IF user.Role = S_admin
             THEN sanitizeResourceName(S_admin_user_ \o user.ID)
             ELSE sanitizeResourceName(S_user_ \o user.ID)
        ELSE first

\* UsersGenerator.generateUserResource's conversion of the auto-group IDs:
\* fmt.Sprintf("netbird_group.%s.id", groupResourceName), else the ID.
LegacyAutoGroupRefs(autoGroups, groupIDToResourceName) ==
    [i \in 1..Len(autoGroups) |->
        IF autoGroups[i] \in DOMAIN groupIDToResourceName
        THEN S_netbird_ \o S_group \o <<".">> \o groupIDToResourceName[autoGroups[i]]
             \o S_dot_id
        ELSE autoGroups[i]]

\* The attributes UsersGenerator.generateUserResource builds: is_blocked
\* is set only for a blocked user.
LegacyUserAttributes(user, groupIDToResourceName) ==
    [id |-> user.ID,
     is_service_user |-> IF user.IsServiceUser THEN TRUE ELSE FALSE]
    @@ AttrIf(user.Email /= <<>>, "email", user.Email)
    @@ AttrIf(user.Name /= <<>>, "name", user.Name)
    @@ AttrIf(user.Role /= <<>>, "role", user.Role)
    @@ AttrIf(user.IsBlocked, "is_blocked", TRUE)
    @@ AttrIf(Len(user.AutoGroups) > 0, "auto_groups",
              LegacyAutoGroupRefs(user.AutoGroups, groupIDToResourceName))

\* UsersGenerator.InitResourcesWithGroupMapping's loop over the fetched users.
RECURSIVE LegacyUsersLoop(_, _, _, _)
LegacyUsersLoop(users, i, groupIDToResourceName, rs) ==
    IF i > Len(users) THEN rs
    ELSE LET user == users[i]
         IN  LegacyUsersLoop(users, i + 1, groupIDToResourceName,
                 IF LegacyUserSkipped(user) THEN rs
                 ELSE AddResource(rs, S_user, LegacyUserResourceName(user),
                                  LegacyUserAttributes(user, groupIDToResourceName)))

\* ------------------------------------------------ inputs of the pure functions

\* One representative of every class of character SanitizeResourceName tells
\* apart, and of those it does not: a lower-case and an upper-case letter, a
\* digit, the underscore, replaced characters, deleted characters, other
\* punctuation, and a non-ASCII rune.
Alphabet == {"a", "A", "1", "_", " ", "-", ".", "(", ":", "!", "U+00C9"}

RECURSIVE StringsUpTo(_)
StringsUpTo(n) ==
    IF n = 0 THEN {<<>>}
    ELSE LET shorter == StringsUpTo(n - 1)
         IN  shorter \cup {Append(s, c) : s \in {t \in shorter : Len(t) = n - 1},
                                          c \in Alphabet}

Ex_MyGroupProd ==
    <<"M", "y", " ", "G", "r", "o", "u", "p", " ", "(", "p", "r", "o", "d", ")">>
Ex_123abc == <<"1", "2", "3", "a", "b", "c">>
Ex_eng == <<"e", "n", "g">>
Ex_a_dash_b == <<"a", " ", "-", " ", "b">>

\* The documented examples, beside every string of up to MaxLen characters.
UtilInputs == StringsUpTo(MaxLen) \cup {Ex_MyGroupProd, Ex_123abc, Ex_eng, Ex_a_dash_b}

UtilKinds == {S_group, S_user, S_policy, S_route, <<>>, <<"a", ".", "b">>}

\* ------------------------------------------- the management API's answers

DigitChars == <<"0", "1", "2", "3", "4", "5", "6", "7", "8", "9">>

\* The ID of the i-th record of a response: "g1", "g2", ... for groups.
RecordID(prefix, i) == <<prefix, DigitChars[i + 1]>>

ID_g1 == RecordID("g", 1)
ID_g2 == RecordID("g", 2)
\* A group ID no response ever holds.
ID_g9 == <<"g", "9">>

\* The records of a response, the i-th given the i-th ID.
WithIDs(bodies, prefix) ==
    [i \in 1..Len(bodies) |-> bodies[i] @@ [ID |-> RecordID(prefix, i)]]

RECURSIVE SeqsUpTo(_, _)
SeqsUpTo(S, n) ==
    IF n = 0 THEN {<<>>}
    ELSE LET shorter == SeqsUpTo(S, n - 1)
         IN  shorter \cup {Append(s, x) : s \in {t \in shorter : Len(t) = n - 1},
                                          x \in S}

\* NetBirdAPI.Get answered with a decoded collection, or with an error.
OkResp(items) == [ok |-> TRUE, err |-> "", items |-> items]
ErrResp == [ok |-> FALSE, err |-> "API request failed with status 401", items |-> <<>>]

N_EngTeam == <<"E", "n", "g", " ", "T", "e", "a", "m">>
N_Eng == <<"E", "n", "g">>
N_OpsTeam == <<"O", "p", "s", " ", "T", "e", "a", "m">>
N_Alice == <<"A", "l", "i", "c", "e">>
N_Email == <<"a", "@", "x", ".", "i", "o">>
N_AllowWeb == <<"A", "l", "l", "o", "w", " ", "W", "e", "b">>
N_net1 == <<"n", "e", "t", "-", "1">>
N_cidr == <<"1", "0", ".", "0", ".", "0", ".", "0", "/", "2", "4">>
N_accept == <<"a", "c", "c", "e", "p", "t">>
N_tcp == <<"t", "c", "p">>
N_peer1 == <<"p", "e", "e", "r", "1">>

GroupBody(name) == [Name |-> name, Peers |-> <<>>, Resources |-> <<>>]

UserBody(email, name, role, isService, isBlocked, autoGroups) ==
    [Email |-> email, Name |-> name, Role |-> role, AutoGroups |-> autoGroups,
     IsBlocked |-> isBlocked, IsServiceUser |-> isService]

GroupInfo(id, name) == [ID |-> id, Name |-> name]

RuleBody(sources, destinations) ==
    [Name |-> N_AllowWeb, Description |-> <<>>, Enabled |-> TRUE, Action |-> N_accept,
     Bidirectional |-> TRUE, Protocol |-> N_tcp, Ports |-> <<>>, PortRanges |-> <<>>,
     Sources |-> sources, SourceResource |-> <<>>,
     Destinations |-> destinations, DestinationResource |-> <<>>]

PolicyBody(rules) ==
    [Name |-> N_AllowWeb, Description |-> <<>>, Enabled |-> TRUE, Rules |-> rules,
     SourcePostureChecks |-> <<>>]

RouteBody(groups, peerGroups) ==
    [Description |-> <<>>, NetworkID |-> N_net1, Network |-> N_cidr, Peer |-> N_peer1,
     PeerGroups |-> peerGroups, Metric |-> 9999, Masquerade |-> TRUE,
     Enabled |-> TRUE, Groups |-> groups, KeepRoute |-> FALSE]

Reverse(s) == [i \in 1..Len(s) |-> s[Len(s) + 1 - i]]

\* Answers of /api/groups: an error, no group, the one group of the
\* end-to-end example, and two groups whose names sanitize alike.
GroupsSmall ==
    {ErrResp, OkResp(<<>>),
     OkResp(WithIDs(<<GroupBody(N_EngTeam)>>, "g")),
     OkResp(WithIDs(<<GroupBody(N_Eng), GroupBody(Ex_eng)>>, "g"))}

\* The user of the end-to-end example: a name and one auto-group, no email,
\* no role, not a service user; and the same user with an email.
UserAlice == UserBody(<<>>, N_Alice, <<>>, FALSE, FALSE, <<ID_g1>>)
UserAliceEmail == UserBody(N_Email, N_Alice, <<>>, FALSE, FALSE, <<ID_g1>>)
UsersSmall ==
    {ErrResp, OkResp(WithIDs(<<UserAlice>>, "u")), OkResp(WithIDs(<<UserAliceEmail>>, "u"))}

\* Group IDs a record refers to: one the groups answer may hold, one it
\* never holds.
RefIDs == {ID_g1, ID_g9}

\* User records for the skip tests: every combination of email, name and
\* service flag.
UserFilterBodies ==
    {UserBody(email, name, S_user, isService, FALSE, <<>>) :
        email \in {<<>>, N_Email}, name \in {<<>>, N_Alice}, isService \in BOOLEAN}

\* User records for the auto-groups: every list of up to MaxRefs group IDs.
UserAutoBodies ==
    {UserBody(N_Email, N_Alice, S_user, FALSE, FALSE, autoGroups) :
        autoGroups \in SeqsUpTo(RefIDs, MaxRefs)}

RefInfos == {GroupInfo(ID_g1, N_EngTeam), GroupInfo(ID_g9, N_OpsTeam)}

\* Policies without rules or with one rule: every list of up to MaxRefs
\* sources, without destinations.
PolicySourceBodies ==
    {PolicyBody(<<>>)} \cup
    {PolicyBody(<<RuleBody(sources, <<>>)>>) : sources \in SeqsUpTo(RefInfos, MaxRefs)}

\* Policies with one rule whose destinations are its sources in reverse.
PolicyBothBodies ==
    {PolicyBody(<<RuleBody(sources, Reverse(sources))>>) :
        sources \in SeqsUpTo(RefInfos, MaxRefs) \ {<<>>}}

PolicyDefault ==
    PolicyBody(<<RuleBody(<<GroupInfo(ID_g1, N_EngTeam)>>,
                          <<GroupInfo(ID_g9, N_OpsTeam)>>)>>)
PoliciesSmall == {ErrResp, OkResp(WithIDs(<<PolicyDefault>>, "p"))}

RouteDefault == RouteBody(<<ID_g1, ID_g9>>, <<ID_g2>>)
RoutesSmall == {ErrResp, OkResp(WithIDs(<<RouteDefault>>, "r"))}

\* Routes for the group lists: every list of up to MaxRefs group IDs as
\* Groups, and the same IDs in reverse as PeerGroups.
RouteRefBodies ==
    {RouteBody(groups, Reverse(groups)) : groups \in SeqsUpTo(RefIDs, MaxRefs)}

\* Display names that sanitize to nothing before the fallback is applied,
\* beside one that does not.
N_parens == <<"(", ")">>
N_dashes == <<"-", " ", "-">>
FallbackNames == {<<>>, N_parens, N_dashes, N_EngTeam}

\* Groups and policies for the name fallbacks.
GroupNameBodies == {GroupBody(name) : name \in FallbackNames}
PolicyNameBodies == {[PolicyBody(<<>>) EXCEPT !.Name = name] : name \in FallbackNames}

\* Routes for the name chain: with and without a network_id and a network.
RouteNameBodies ==
    {[RouteBody(<<>>, <<>>) EXCEPT !.NetworkID = networkID, !.Network = network] :
        networkID \in {<<>>, N_net1}, network \in {<<>>, N_cidr}}

\* /api/groups answered with the one group of the end-to-end example.
GroupsOne == OkResp(WithIDs(<<GroupBody(N_EngTeam)>>, "g"))

N_Admin == <<"A", "d", "m", "i", "n">>

\* Users for the names: with an email, so that none is skipped, every
\* combination of a name and a role.
UserNameBodies ==
    {UserBody(N_Email, name, role, FALSE, FALSE, <<>>) :
        name \in {<<>>, N_Alice, N_parens}, role \in {<<>>, S_admin, N_Admin, S_user}}

N_host == <<"h", "o", "s", "t">>
N_res1 == <<"n", "1">>

\* Groups for the attributes: one peer, and every list of up to MaxRefs
\* nested resource entries with and without an ID.
GroupAttrBodies ==
    {[Name |-> N_EngTeam, Peers |-> <<[id |-> N_peer1]>>, Resources |-> nested] :
        nested \in SeqsUpTo({[ID |-> <<>>, Type |-> N_host],
                             [ID |-> N_res1, Type |-> N_host]}, MaxRefs)}

\* Users for the attributes: with and without an email, a name and a role,
\* blocked and not; the users without an email are service users.
UserAttrBodies ==
    {UserBody(email, name, role, email = <<>>, isBlocked, <<>>) :
        email \in {<<>>, N_Email}, name \in {<<>>, N_Alice}, role \in {<<>>, S_user},
        isBlocked \in BOOLEAN}

N_80 == <<"8", "0">>
N_check1 == <<"c", "1">>
PortLow == 1000
PortHigh == 2000

\* A nil or a set *Resource, as a list of no or one record.
ResourcePtr(present) == IF present THEN <<[ID |-> N_res1, Type |-> N_host]>> ELSE <<>>

\* A rule with or without each of its optional parts.
RuleVariant(ports, ranges, sources, destinations, sourceResource, destResource) ==
    [RuleBody(IF sources THEN <<GroupInfo(ID_g1, N_EngTeam)>> ELSE <<>>,
              IF destinations THEN <<GroupInfo(ID_g9, N_OpsTeam)>> ELSE <<>>)
     EXCEPT !.Ports = IF ports THEN <<N_80>> ELSE <<>>,
            !.PortRanges = IF ranges THEN <<[Start |-> PortLow, End |-> PortHigh]>>
                           ELSE <<>>,
            !.SourceResource = ResourcePtr(sourceResource),
            !.DestinationResource = ResourcePtr(destResource)]

RuleAllParts == RuleVariant(TRUE, TRUE, TRUE, TRUE, TRUE, TRUE)
RuleNoParts == RuleVariant(FALSE, FALSE, FALSE, FALSE, FALSE, FALSE)

\* Policies for the attributes: every list of up to MaxRefs rules that
\* have all optional parts or none.
PolicyRulesBodies ==
    {PolicyBody(rules) : rules \in SeqsUpTo({RuleAllParts, RuleNoParts}, MaxRefs)}

\* Policies for the attributes: one rule with any combination of its
\* optional parts, with and without posture checks.
PolicyPartsBodies ==
    {[PolicyBody(<<RuleVariant(a, b, c, d, e, f)>>)
      EXCEPT !.SourcePostureChecks = IF posture THEN <<N_check1>> ELSE <<>>] :
        a \in BOOLEAN, b \in BOOLEAN, c \in BOOLEAN, d \in BOOLEAN, e \in BOOLEAN,
        f \in BOOLEAN, posture \in BOOLEAN}

\* Routes for the attributes: empty and non-empty strings, a zero and a
\* non-zero metric, each flag in both states; no group.
RouteValueBodies ==
    {[RouteBody(<<>>, <<>>)
      EXCEPT !.Description = text, !.Peer = text, !.Metric = metric,
             !.Masquerade = masquerade, !.Enabled = enabled, !.KeepRoute = keepRoute] :
        text \in {<<>>, N_peer1}, metric \in {0, 9999}, masquerade \in BOOLEAN,
        enabled \in BOOLEAN, keepRoute \in BOOLEAN}

\* What the output directory does: whether provider.tf can be written, and
\* the file that cannot: that of a kind, group_mappings.json or import.sh
\* (none: every file can).
Disk(providerOk, failing) == [providerOk |-> providerOk, failing |-> failing]
DiskOk == Disk(TRUE, <<>>)

Remote(groups, users, policies, routes, routeGroups) ==
    [groups |-> groups, users |-> users, policies |-> policies, routes |-> routes,
     routeGroups |-> routeGroups, disk |-> DiskOk, autoImport |-> FALSE]

\* The answers of the end-to-end example, and no answer at all, with a disk
\* that refuses provider.tf or one other file, AUTO_IMPORT being "false".
RemotesDisk ==
    {[r EXCEPT !.disk = d] :
        r \in {Remote(GroupsOne, OkResp(WithIDs(<<UserAliceEmail>>, "u")),
                      OkResp(WithIDs(<<PolicyDefault>>, "p")),
                      OkResp(WithIDs(<<RouteDefault>>, "r")), GroupsOne),
               Remote(ErrResp, ErrResp, ErrResp, ErrResp, ErrResp)},
        d \in {Disk(FALSE, <<>>)} \cup
              {Disk(TRUE, t) : t \in {S_group, S_user, S_policy, S_route,
                                      S_group_mappings, S_import}}}

\* The same answers and disks, and two more sets of answers on a disk that
\* refuses nothing, AUTO_IMPORT being unset: config.AutoImport is true.
RemotesAuto ==
    {[r EXCEPT !.autoImport = TRUE] :
        r \in RemotesDisk \cup
              {Remote(g, u, OkResp(WithIDs(<<PolicyDefault>>, "p")), ErrResp, g) :
                  g \in GroupsSmall, u \in UsersSmall}}

\* Every combination of failing and answering endpoints; the route
\* collector's own fetch of the groups may fail when the first did not.
RemotesSmall ==
    {Remote(g, u, p, r, rg) :
        g \in GroupsSmall, u \in UsersSmall, p \in PoliciesSmall, r \in RoutesSmall,
        rg \in GroupsSmall}

\* The groups answers the record families below are run against.
GroupsAnswers == GroupsSmall \ {OkResp(<<>>)}

\* The API's answers when it answers every endpoint, with the given users.
RemoteWithUsers(g, users) ==
    Remote(g, OkResp(WithIDs(users, "u")), OkResp(WithIDs(<<PolicyDefault>>, "p")),
           OkResp(WithIDs(<<RouteDefault>>, "r")), g)

\* The API's answers when it answers every endpoint, with the given policies.
RemoteWithPolicies(g, policies) ==
    Remote(g, OkResp(WithIDs(<<UserAliceEmail>>, "u")), OkResp(WithIDs(policies, "p")),
           OkResp(WithIDs(<<RouteDefault>>, "r")), g)

\* The API's answers when it answers every endpoint but possibly /api/groups,
\* with the given routes.
RemoteWithRoutes(g, routes) ==
    Remote(g, OkResp(WithIDs(<<UserAliceEmail>>, "u")),
           OkResp(WithIDs(<<PolicyDefault>>, "p")), OkResp(WithIDs(routes, "r")), g)

\* The API's answers when it answers every endpoint, with the given groups.
RemoteWithGroups(groups) ==
    Remote(OkResp(WithIDs(groups, "g")), OkResp(WithIDs(<<UserAliceEmail>>, "u")),
           OkResp(WithIDs(<<PolicyDefault>>, "p")),
           OkResp(WithIDs(<<RouteDefault>>, "r")), OkResp(WithIDs(groups, "g")))

\* The same, the users' IDs being "U1", "U2", ...: not sanitized names.
RemoteWithNamedUsers(users) ==
    [RemoteWithUsers(GroupsOne, <<>>) EXCEPT !.users = OkResp(WithIDs(users, "U"))]

\* The answers a pass is run against: the small combinations of failing
\* and answering endpoints, and every list of up to MaxItems records of
\* each family, the other endpoints answering the end-to-end example.
IsRemote(r) ==
    \/ r \in RemotesSmall
    \/ r \in RemotesDisk
    \/ r \in RemotesAuto
    \/ \E g \in GroupsAnswers, users \in SeqsUpTo(UserFilterBodies, MaxItems) :
           r = RemoteWithUsers(g, users)
    \/ \E users \in SeqsUpTo(UserAutoBodies, MaxItems) :
           r = RemoteWithUsers(GroupsOne, users)
    \/ \E policies \in SeqsUpTo(PolicySourceBodies, MaxItems) :
           r = RemoteWithPolicies(GroupsOne, policies)
    \/ \E policies \in SeqsUpTo(PolicyBothBodies, MaxItems) :
           r = RemoteWithPolicies(GroupsOne, policies)
    \/ \E g \in GroupsSmall \ {GroupsOne}, route \in RouteRefBodies :
           r = RemoteWithRoutes(g, <<route>>)
    \/ \E routes \in SeqsUpTo(RouteRefBodies, MaxItems) :
           r = RemoteWithRoutes(GroupsOne, routes)
    \/ \E users \in SeqsUpTo(UserAttrBodies, MaxItems) :
           r = RemoteWithUsers(GroupsOne, users)
    \/ \E users \in SeqsUpTo(UserNameBodies, MaxItems) :
           r = RemoteWithNamedUsers(users)
    \/ \E routes \in SeqsUpTo(RouteNameBodies, MaxItems) :
           r = RemoteWithRoutes(GroupsOne, routes)
    \/ \E route \in RouteValueBodies :
           r = RemoteWithRoutes(GroupsOne, <<route>>)
    \/ \E groups \in SeqsUpTo(GroupNameBodies, MaxItems) :
           r = RemoteWithGroups(groups)
    \/ \E groups \in SeqsUpTo(GroupAttrBodies, MaxItems) :
           r = RemoteWithGroups(groups)
    \/ \E g \in GroupsAnswers, policies \in SeqsUpTo(PolicyNameBodies, MaxItems) :
           r = RemoteWithPolicies(g, policies)
    \/ \E policies \in SeqsUpTo(PolicyRulesBodies, MaxItems) :
           r = RemoteWithPolicies(GroupsOne, policies)
    \/ \E policy \in PolicyPartsBodies :
           r = RemoteWithPolicies(GroupsOne, <<policy>>)

\* --------------------------------------------------------------- state

VARIABLES
    pc,                 \* where main() is
    remote,             \* what each endpoint of the management API answers,
                        \* and what the local disk does
    resources,          \* the Writer's accumulated resources
    idToResourceName,   \* GroupsHandler.idToResourceName
    usersMapped,        \* UsersHandler.groupMapping is the GroupsHandler's map
    policiesMapped,     \* PoliciesHandler.groupMapping is the GroupsHandler's map
    warnings,           \* the "Warning: ..." lines main() has printed
    importing,          \* the "Importing <kind>..." lines the collectors printed
    files,              \* the files written to the output directory
    requests,           \* the paths NetBirdService.Get was called with, in order
    groupIDToResourceName, \* the map RoutesHandler.ImportAndGenerate builds
    terraform,          \* the terraform commands run, each with its outcome
    successCount,       \* runTerraformImports's successCount
    uPhase, uInput, uKind, uID, uOut, uOut2, uName, uRef

\* What runTerraformImports changes.
runVars == <<terraform, successCount>>

mainVars ==
    <<pc, remote, resources, idToResourceName, usersMapped, policiesMapped, warnings,
      importing, files, requests, groupIDToResourceName, runVars>>

utilVars == <<uPhase, uInput, uKind, uID, uOut, uOut2, uName, uRef>>

vars == <<mainVars, utilVars>>

\* The state the constructors of main() leave: no resource, three empty maps.
InitMain ==
    /\ resources = <<>>
    /\ idToResourceName = EmptyMap
    /\ usersMapped = FALSE
    /\ policiesMapped = FALSE
    /\ warnings = <<>>
    /\ importing = <<>>
    /\ files = EmptyMap
    /\ requests = <<>>
    /\ groupIDToResourceName = EmptyMap
    /\ terraform = <<>>
    /\ successCount = 0

\* ------------------------------------------ the pure functions, applied

InitUtil ==
    /\ pc = "off"
    /\ remote = Remote(ErrResp, ErrResp, ErrResp, ErrResp, ErrResp)
    /\ InitMain
    /\ uPhase = "input"
    /\ uInput \in UtilInputs
    /\ uKind \in UtilKinds
    /\ uID = <<"g", "1">>
    /\ uOut = <<>>
    /\ uOut2 = <<>>
    /\ uName = <<>>
    /\ uRef = <<>>

\* name := SanitizeResourceName(input)
Sanitize ==
    /\ uPhase = "input"
    /\ uOut' = SanitizeResourceName(uInput)
    /\ uPhase' = "sanitized"
    /\ UNCHANGED <<mainVars, uInput, uKind, uID, uOut2, uName, uRef>>

\* The result is sanitized again.
Resanitize ==
    /\ uPhase = "sanitized"
    /\ uOut2' = SanitizeResourceName(uOut)
    /\ uPhase' = "resanitized"
    /\ UNCHANGED <<mainVars, uInput, uKind, uID, uOut, uName, uRef>>

\* A caller tests the result against "" and falls back to an ID-based name.
CallerName ==
    /\ uPhase = "resanitized"
    /\ uName' = GroupResourceName(uInput, uID)
    /\ uPhase' = "named"
    /\ UNCHANGED <<mainVars, uInput, uKind, uID, uOut, uOut2, uRef>>

\* ref := CreateTerraformReference(kind, input)
Reference ==
    /\ uPhase = "named"
    /\ uRef' = CreateTerraformReference(uKind, uInput)
    /\ uPhase' = "referenced"
    /\ UNCHANGED <<mainVars, uInput, uKind, uID, uOut, uOut2, uName>>

NextUtil == Sanitize \/ Resanitize \/ CallerName \/ Reference

SpecUtil == InitUtil /\ [][NextUtil]_vars

\* ----------------------------------------------- EscapeString, applied

\* Every string of up to n characters of an alphabet.
RECURSIVE StringsOver(_, _)
StringsOver(alphabet, n) ==
    IF n = 0 THEN {<<>>}
    ELSE LET shorter == StringsOver(alphabet, n - 1)
         IN  shorter \cup {Append(s, c) : s \in {t \in shorter : Len(t) = n - 1},
                                          c \in alphabet}

\* The four characters EscapeString replaces, the letters its replacements
\* introduce, and a character it has nothing to do with.
EscapeAlphabet == {Backslash, DoubleQuote, Newline, Tab, "n", "t", "a"}

InitEscape ==
    /\ pc = "off"
    /\ remote = Remote(ErrResp, ErrResp, ErrResp, ErrResp, ErrResp)
    /\ InitMain
    /\ uPhase = "input"
    /\ uInput \in StringsOver(EscapeAlphabet, MaxLen)
    /\ uKind = <<>>
    /\ uID = <<>>
    /\ uOut = <<>>
    /\ uOut2 = <<>>
    /\ uName = <<>>
    /\ uRef = <<>>

\* out := EscapeString(input)
Escape ==
    /\ uPhase = "input"
    /\ uOut' = EscapeString(uInput)
    /\ uPhase' = "escaped"
    /\ UNCHANGED <<mainVars, uInput, uKind, uID, uOut2, uName, uRef>>

NextEscape == Escape

SpecEscape == InitEscape /\ [][NextEscape]_vars

\* ------------------------------------------------------------- main()

\* A handler's groupMapping field: its own empty map until SetGroupMapping
\* hands it the GroupsHandler's map, which it then shares.
GroupMappingOf(mapped) == IF mapped THEN idToResourceName ELSE EmptyMap

\* fmt.Printf("Warning: %v\n", err) for fmt.Errorf("<msg>: %w", cause)
Warn(msg, cause) == Append(warnings, [msg |-> msg, cause |-> cause])

Init ==
    /\ pc = "groups"
    /\ IsRemote(remote)
    /\ InitMain
    /\ uPhase = "off"
    /\ uInput = <<>>
    /\ uKind = <<>>
    /\ uID = <<>>
    /\ uOut = <<>>
    /\ uOut2 = <<>>
    /\ uName = <<>>
    /\ uRef = <<>>

\* Mutant of GroupsImportAndGenerate: a failed fetch is tried a second time.
GroupsImportAndGenerate_Retries ==
    /\ pc = "groups"
    /\ IF ~remote.groups.ok
       THEN /\ warnings' = Warn("failed to fetch groups", remote.groups.err)
            /\ requests' = requests \o <<"/api/groups", "/api/groups">>
            /\ UNCHANGED <<resources, idToResourceName>>
       ELSE LET st == GroupsLoop(remote.groups.items, 1,
                                 [resources |-> resources,
                                  mapping |-> idToResourceName])
            IN  /\ resources' = st.resources
                /\ idToResourceName' = st.mapping
                /\ requests' = Append(requests, "/api/groups")
                /\ UNCHANGED warnings
    /\ pc' = "wire"
    /\ importing' = Append(importing, "groups")
    /\ UNCHANGED <<remote, usersMapped, policiesMapped, files, groupIDToResourceName,
                   runVars, utilVars>>

\* groupsHandler.ImportAndGenerate() and main()'s warning.
GroupsImportAndGenerate ==
    /\ pc = "groups"
    /\ IF ~remote.groups.ok
       THEN /\ warnings' = Warn("failed to fetch groups", remote.groups.err)
            /\ UNCHANGED <<resources, idToResourceName>>
       ELSE LET st == GroupsLoop(remote.groups.items, 1,
                                 [resources |-> resources,
                                  mapping |-> idToResourceName])
            IN  /\ resources' = st.resources
                /\ idToResourceName' = st.mapping
                /\ UNCHANGED warnings
    /\ pc' = "wire"
    /\ importing' = Append(importing, "groups")
    /\ requests' = Append(requests, "/api/groups")
    /\ UNCHANGED <<remote, usersMapped, policiesMapped, files, groupIDToResourceName,
                   runVars, utilVars>>

\* Mutant of SetGroupMapping: the users handler is not handed the map.
SetGroupMapping_UsersForgotten ==
    /\ pc = "wire"
    /\ usersMapped' = FALSE
    /\ policiesMapped' = TRUE
    /\ pc' = "users"
    /\ UNCHANGED <<remote, requests, resources, idToResourceName, warnings, importing, files, groupIDToResourceName,
                   runVars, utilVars>>

\* groupMapping := groupsHandler.GetResourceMapping(), handed to the users
\* and the policies handler.
SetGroupMapping ==
    /\ pc = "wire"
    /\ usersMapped' = TRUE
    /\ policiesMapped' = TRUE
    /\ pc' = "users"
    /\ UNCHANGED <<remote, requests, resources, idToResourceName, warnings, importing, files, groupIDToResourceName,
                   runVars, utilVars>>

\* Mutant of UsersImportAndGenerate: main() ends the program on the error.
UsersImportAndGenerate_Aborts ==
    /\ pc = "users"
    /\ IF ~remote.users.ok
       THEN /\ warnings' = Warn("failed to fetch users", remote.users.err)
            /\ pc' = "fatal"
            /\ UNCHANGED resources
       ELSE /\ resources' = UsersLoop(remote.users.items, 1,
                                      GroupMappingOf(usersMapped), resources)
            /\ pc' = "policies"
            /\ UNCHANGED warnings
    /\ importing' = Append(importing, "users")
    /\ requests' = Append(requests, "/api/users")
    /\ UNCHANGED <<remote, idToResourceName, usersMapped, policiesMapped, files, groupIDToResourceName,
                   runVars, utilVars>>

\* usersHandler.ImportAndGenerate() and main()'s warning.
UsersImportAndGenerate ==
    /\ pc = "users"
    /\ IF ~remote.users.ok
       THEN /\ warnings' = Warn("failed to fetch users", remote.users.err)
            /\ UNCHANGED resources
       ELSE /\ resources' = UsersLoop(remote.users.items, 1,
                                      GroupMappingOf(usersMapped), resources)
            /\ UNCHANGED warnings
    /\ pc' = "policies"
    /\ importing' = Append(importing, "users")
    /\ requests' = Append(requests, "/api/users")
    /\ UNCHANGED <<remote, idToResourceName, usersMapped, policiesMapped, files, groupIDToResourceName,
                   runVars, utilVars>>

\* Mutant of PoliciesImportAndGenerate: the handler stores the names it
\* falls back to in the map it shares.
PoliciesImportAndGenerate_StoresFallback ==
    /\ pc = "policies"
    /\ IF ~remote.policies.ok
       THEN /\ warnings' = Warn("failed to fetch policies", remote.policies.err)
            /\ UNCHANGED resources
       ELSE /\ resources' = PoliciesLoop(remote.policies.items, 1,
                                         GroupMappingOf(policiesMapped), resources)
            /\ UNCHANGED warnings
    /\ idToResourceName' = MapPut(idToResourceName, ID_g9, SanitizeResourceName(N_OpsTeam))
    /\ pc' = "routes"
    /\ importing' = Append(importing, "policies")
    /\ requests' = Append(requests, "/api/policies")
    /\ UNCHANGED <<remote, usersMapped, policiesMapped, files, groupIDToResourceName,
                   runVars, utilVars>>

\* policiesHandler.ImportAndGenerate() and main()'s warning.
PoliciesImportAndGenerate ==
    /\ pc = "policies"
    /\ IF ~remote.policies.ok
       THEN /\ warnings' = Warn("failed to fetch policies", remote.policies.err)
            /\ UNCHANGED resources
       ELSE /\ resources' = PoliciesLoop(remote.policies.items, 1,
                                         GroupMappingOf(policiesMapped), resources)
            /\ UNCHANGED warnings
    /\ pc' = "routes"
    /\ importing' = Append(importing, "policies")
    /\ requests' = Append(requests, "/api/policies")
    /\ UNCHANGED <<remote, idToResourceName, usersMapped, policiesMapped, files, groupIDToResourceName,
                   runVars, utilVars>>

\* Mutant of RoutesImportAndGenerate: without its groups the handler goes
\* on with an empty map, and fetches and generates the routes.
RoutesImportAndGenerate_EmptyMapOnError ==
    /\ pc = "routes"
    /\ LET mapping == IF remote.routeGroups.ok
                      THEN RouteGroupMapping(remote.routeGroups.items, 1, EmptyMap)
                      ELSE EmptyMap
       IN  /\ groupIDToResourceName' = mapping
           /\ requests' = requests \o <<"/api/groups", "/api/routes">>
           /\ IF ~remote.routes.ok
              THEN /\ warnings' = Warn("failed to fetch routes", remote.routes.err)
                   /\ UNCHANGED resources
              ELSE /\ resources' = RoutesLoop(remote.routes.items, 1, mapping, resources)
                   /\ UNCHANGED warnings
    /\ pc' = "generate"
    /\ importing' = Append(importing, "routes")
    /\ UNCHANGED <<remote, idToResourceName, usersMapped, policiesMapped, files, runVars, utilVars>>

\* routesHandler.ImportAndGenerate() and main()'s warning: the groups are
\* fetched again, then the routes.
RoutesImportAndGenerate ==
    /\ pc = "routes"
    /\ IF ~remote.routeGroups.ok
       THEN /\ warnings' = Warn("failed to fetch groups for route mapping",
                                remote.routeGroups.err)
            /\ requests' = Append(requests, "/api/groups")
            /\ UNCHANGED <<resources, groupIDToResourceName>>
       ELSE LET mapping == RouteGroupMapping(remote.routeGroups.items, 1, EmptyMap)
            IN  /\ groupIDToResourceName' = mapping
                /\ requests' = requests \o <<"/api/groups", "/api/routes">>
                /\ IF ~remote.routes.ok
                   THEN /\ warnings' = Warn("failed to fetch routes", remote.routes.err)
                        /\ UNCHANGED resources
                   ELSE /\ resources' = RoutesLoop(remote.routes.items, 1, mapping,
                                                   resources)
                        /\ UNCHANGED warnings
    /\ pc' = "generate"
    /\ importing' = Append(importing, "routes")
    /\ UNCHANGED <<remote, idToResourceName, usersMapped, policiesMapped, files, runVars, utilVars>>

\* generateTerraformFiles's resourcesByType, and the file of each kind.
ResourcesByType(rs) ==
    [t \in {rs[i].Type : i \in 1..Len(rs)} |->
        LET OfType(r) == r.Type = t IN SelectSeq(rs, OfType)]

\* The output directory holding provider.tf and the files of these kinds.
FilesWritten(kinds) ==
    LET byType == ResourcesByType(resources)
    IN  [f \in {S_provider} \cup kinds |-> IF f = S_provider THEN <<>> ELSE byType[f]]

\* generateTerraformFiles(terraformGen, outputDir) and main()'s log.Fatalf:
\* provider.tf, then one file per kind that has resources, in the order
\* of a Go map, which is any order; the first failure ends the program.
GenerateTerraformFiles ==
    /\ pc = "generate"
    /\ LET kinds == DOMAIN ResourcesByType(resources)
       IN  IF ~remote.disk.providerOk
           THEN /\ pc' = "fatal"
                /\ UNCHANGED files
           ELSE IF remote.disk.failing \in kinds
           THEN /\ pc' = "fatal"
                /\ \E written \in SUBSET (kinds \ {remote.disk.failing}) :
                       files' = FilesWritten(written)
           ELSE /\ pc' = "group_mapping"
                /\ files' = FilesWritten(kinds)
    /\ UNCHANGED <<remote, requests, resources, idToResourceName, usersMapped, policiesMapped,
                   warnings, importing, groupIDToResourceName,
                   runVars, utilVars>>

\* The identifier a resource carries for its import: its "id" attribute.
RemoteID(r) == IF "id" \in DOMAIN r.Attributes THEN r.Attributes["id"] ELSE <<>>

\* terraformGen.GetImportCommands(): one command per accumulated resource
\* that carries an identifier, in the order of accumulation.
GetImportCommands(rs) ==
    LET HasID(r) == RemoteID(r) /= <<>>
        kept == SelectSeq(rs, HasID)
    IN  [i \in 1..Len(kept) |->
            [ResourceAddress |-> kept[i].Type \o <<".">> \o kept[i].Name,
             ResourceID |-> RemoteID(kept[i])]]

\* group_mappings.json: the symbolic name of each group resource, by its ID.
GroupMappingFile(rs) ==
    LET IsGroupResource(r) == r.Type = S_group /\ RemoteID(r) /= <<>>
        groups == SelectSeq(rs, IsGroupResource)
    IN  [id \in {RemoteID(groups[i]) : i \in 1..Len(groups)} |->
            LET last == CHOOSE i \in 1..Len(groups) :
                            /\ RemoteID(groups[i]) = id
                            /\ \A j \in (i + 1)..Len(groups) : RemoteID(groups[j]) /= id
            IN  groups[last].Name]

\* terraformGen.GenerateGroupMapping() and main()'s log.Fatalf.
GenerateGroupMapping ==
    /\ pc = "group_mapping"
    /\ IF remote.disk.failing = S_group_mappings
       THEN /\ pc' = "fatal"
            /\ UNCHANGED files
       ELSE /\ pc' = "import_script"
            /\ files' = files @@ (S_group_mappings :> GroupMappingFile(resources))
    /\ UNCHANGED <<remote, requests, resources, idToResourceName, usersMapped,
                   policiesMapped, warnings, importing, groupIDToResourceName,
                   runVars, utilVars>>

\* Mutant of GenerateImportScript: main() does not test the error.
GenerateImportScript_ErrorIgnored ==
    /\ pc = "import_script"
    /\ IF remote.disk.failing = S_import
       THEN UNCHANGED files
       ELSE files' = files @@ (S_import :> GetImportCommands(resources))
    /\ pc' = "auto_import"
    /\ UNCHANGED <<remote, requests, resources, idToResourceName, usersMapped,
                   policiesMapped, warnings, importing, groupIDToResourceName,
                   runVars, utilVars>>

\* terraformGen.GenerateImportScript() and main()'s log.Fatalf.
GenerateImportScript ==
    /\ pc = "import_script"
    /\ IF remote.disk.failing = S_import
       THEN /\ pc' = "fatal"
            /\ UNCHANGED files
       ELSE /\ pc' = "auto_import"
            /\ files' = files @@ (S_import :> GetImportCommands(resources))
    /\ UNCHANGED <<remote, requests, resources, idToResourceName, usersMapped,
                   policiesMapped, warnings, importing, groupIDToResourceName,
                   runVars, utilVars>>

\* One run of the terraform command, as runTerraformImports records it.
Ran(op, address, id, ok) == [op |-> op, address |-> address, id |-> id, ok |-> ok]

\* The number of import commands run so far.
ImportsRun ==
    LET IsImportRun(c) == c.op = "import" IN Len(SelectSeq(terraform, IsImportRun))

\* Mutant of RunTerraformImports: a failing terraform init is only warned
\* of, and the loop is entered.
RunTerraformImports_InitWarned ==
    /\ pc = "auto_import"
    /\ IF ~remote.autoImport \/ GetImportCommands(resources) = <<>>
       THEN /\ pc' = "done"
            /\ UNCHANGED terraform
       ELSE \E ok \in BOOLEAN :
                /\ terraform' = Append(terraform, Ran("init", <<>>, <<>>, ok))
                /\ pc' = "import"
    /\ UNCHANGED <<remote, requests, resources, idToResourceName, usersMapped,
                   policiesMapped, warnings, importing, files, groupIDToResourceName,
                   successCount, utilVars>>

\* main()'s test of config.AutoImport and runTerraformImports to its loop:
\* nothing is run without import commands; terraform init exits with zero
\* or not, and main() ends the program when it does not.
RunTerraformImports ==
    /\ pc = "auto_import"
    /\ IF ~remote.autoImport \/ GetImportCommands(resources) = <<>>
       THEN /\ pc' = "done"
            /\ UNCHANGED terraform
       ELSE \E ok \in BOOLEAN :
                /\ terraform' = Append(terraform, Ran("init", <<>>, <<>>, ok))
                /\ pc' = IF ok THEN "import" ELSE "fatal"
    /\ UNCHANGED <<remote, requests, resources, idToResourceName, usersMapped,
                   policiesMapped, warnings, importing, files, groupIDToResourceName,
                   successCount, utilVars>>

\* Mutant of TerraformImport: the first failing import ends the loop and
\* the error is returned to main().
TerraformImport_StopsOnFailure ==
    /\ pc = "import"
    /\ LET importCommands == GetImportCommands(resources)
           cmd == importCommands[ImportsRun + 1]
       IN  \E ok \in BOOLEAN :
               /\ terraform' = Append(terraform, Ran("import", cmd.ResourceAddress,
                                                     cmd.ResourceID, ok))
               /\ successCount' = IF ok THEN successCount + 1 ELSE successCount
               /\ pc' = IF ~ok THEN "fatal"
                        ELSE IF ImportsRun + 1 = Len(importCommands) THEN "done"
                        ELSE "import"
    /\ UNCHANGED <<remote, requests, resources, idToResourceName, usersMapped,
                   policiesMapped, warnings, importing, files, groupIDToResourceName,
                   utilVars>>

\* One turn of runTerraformImports's loop: terraform import exits with zero
\* or not; after the last command the function returns nil and main() ends.
TerraformImport ==
    /\ pc = "import"
    /\ LET importCommands == GetImportCommands(resources)
           cmd == importCommands[ImportsRun + 1]
       IN  /\ \E ok \in BOOLEAN :
                  /\ terraform' = Append(terraform, Ran("import", cmd.ResourceAddress,
                                                        cmd.ResourceID, ok))
                  /\ successCount' = IF ok THEN successCount + 1 ELSE successCount
           /\ pc' = IF ImportsRun + 1 = Len(importCommands) THEN "done" ELSE "import"
    /\ UNCHANGED <<remote, requests, resources, idToResourceName, usersMapped,
                   policiesMapped, warnings, importing, files, groupIDToResourceName,
                   utilVars>>

Next ==
    \/ GroupsImportAndGenerate
    \/ SetGroupMapping
    \/ UsersImportAndGenerate
    \/ PoliciesImportAndGenerate
    \/ RoutesImportAndGenerate
    \/ GenerateTerraformFiles
    \/ GenerateGroupMapping
    \/ GenerateImportScript
    \/ RunTerraformImports
    \/ TerraformImport

Spec == Init /\ [][Next]_vars

\* main() with AUTO_IMPORT unset. runTerraformImports's loop is sequential
\* code over a finite list and each terraform command is waited for, so a
\* turn of the loop that can be taken is taken.
InitAuto ==
    /\ pc = "groups"
    /\ remote \in RemotesAuto
    /\ InitMain
    /\ uPhase = "off"
    /\ uInput = <<>>
    /\ uKind = <<>>
    /\ uID = <<>>
    /\ uOut = <<>>
    /\ uOut2 = <<>>
    /\ uName = <<>>
    /\ uRef = <<>>

SpecAuto == InitAuto /\ [][Next]_vars /\ WF_vars(TerraformImport)

\* ------------------------------------------- the earlier main(), to its users

\* The answers the earlier pass is run against.
IsLegacyRemote(r) ==
    \/ \E g \in GroupsAnswers, users \in SeqsUpTo(UserAttrBodies, MaxItems) :
           r = RemoteWithUsers(g, users)
    \/ \E g \in GroupsAnswers, u \in UsersSmall :
           r = [RemoteWithUsers(g, <<>>) EXCEPT !.users = u]

\* The state after &GroupsGenerator{...}: its map is nil, which reads as empty.
InitLegacy ==
    /\ pc = "legacy_groups"
    /\ IsLegacyRemote(remote)
    /\ InitMain
    /\ uPhase = "off"
    /\ uInput = <<>>
    /\ uKind = <<>>
    /\ uID = <<>>
    /\ uOut = <<>>
    /\ uOut2 = <<>>
    /\ uName = <<>>
    /\ uRef = <<>>

\* groupsGen.InitResources() and main()'s warning: the map is made anew
\* once the groups are fetched.
LegacyGroupsInitResources ==
    /\ pc = "legacy_groups"
    /\ IF ~remote.groups.ok
       THEN /\ warnings' = Warn("failed to fetch groups", remote.groups.err)
            /\ UNCHANGED <<resources, idToResourceName>>
       ELSE LET st == LegacyGroupsLoop(remote.groups.items, 1,
                                       [resources |-> resources, mapping |-> EmptyMap])
            IN  /\ resources' = st.resources
                /\ idToResourceName' = st.mapping
                /\ UNCHANGED warnings
    /\ pc' = "legacy_users"
    /\ importing' = Append(importing, "groups")
    /\ requests' = Append(requests, "/api/groups")
    /\ UNCHANGED <<remote, usersMapped, policiesMapped, files, groupIDToResourceName,
                   runVars, utilVars>>

\* usersGen.InitResourcesWithGroupMapping(groupsGen.GetGroupIDMapping())
\* and main()'s warning.
LegacyUsersInitResources ==
    /\ pc = "legacy_users"
    /\ IF ~remote.users.ok
       THEN /\ warnings' = Warn("failed to fetch users", remote.users.err)
            /\ UNCHANGED resources
       ELSE /\ resources' = LegacyUsersLoop(remote.users.items, 1, idToResourceName,
                                            resources)
            /\ UNCHANGED warnings
    /\ pc' = "legacy_policies"
    /\ importing' = Append(importing, "users")
    /\ requests' = Append(requests, "/api/users")
    /\ UNCHANGED <<remote, idToResourceName, usersMapped, policiesMapped, files, groupIDToResourceName,
                   runVars, utilVars>>

NextLegacy == LegacyGroupsInitResources \/ LegacyUsersInitResources

SpecLegacy == InitLegacy /\ [][NextLegacy]_vars


\* ------------------------------------------- claims on the pure functions

Sanitized == uPhase \in {"sanitized", "resanitized", "named", "referenced"}
Resanitized == uPhase \in {"resanitized", "named", "referenced"}
Named == uPhase \in {"named", "referenced"}

NameChars == AsciiLower \cup Digits \cup {"_"}

\* C1: sanitizing the result of SanitizeResourceName again gives the same
\* string, for every input, the digit-prefixed and the fallback results
\* included.
C1_Idempotent == Resanitized => uOut2 = uOut

\* C1 witness: a digit-leading input has been sanitized twice.
C1_Witness ==
    /\ uPhase = "resanitized"
    /\ uInput = Ex_123abc
    /\ SubSeq(uOut2, 1, 9) = S_resource_

\* C2: every character of a SanitizeResourceName result is a lower-case
\* ASCII letter, a digit or the underscore.
C2_OnlyNameChars == Sanitized => \A i \in 1..Len(uOut) : uOut[i] \in NameChars

\* C3: a SanitizeResourceName result holds no two consecutive underscores
\* and neither begins nor ends with an underscore.
C3_NoUnderscoreRuns ==
    Sanitized =>
        /\ ~ \E i \in 1..(Len(uOut) - 1) : uOut[i] = "_" /\ uOut[i + 1] = "_"
        /\ uOut /= <<>> => (uOut[1] /= "_" /\ uOut[Len(uOut)] /= "_")

\* C3 witness: an input whose separators make a run of three underscores
\* has been sanitized.
C3_Witness ==
    /\ uPhase = "sanitized"
    /\ uInput = Ex_a_dash_b
    /\ uOut = <<"a", "_", "b">>

\* C4: a SanitizeResourceName result is never empty and never starts with
\* a digit, so a caller's fallback for an empty result is never taken: the
\* caller's name is the sanitized name.
C4_NonEmptyNoLeadingDigit ==
    /\ Sanitized => (uOut /= <<>> /\ uOut[1] \notin Digits)
    /\ Named => uName = uOut

\* C4 witness: an input that trims to nothing has been named by a caller.
C4_Witness ==
    /\ uPhase = "named"
    /\ uInput = <<"_", "(">>
    /\ uName = S_unnamed_resource

\* C5: the documented examples: "" gives "unnamed_resource", "123abc" gives
\* "resource_123abc" and "My Group (prod)" gives "my_group_prod".
C5_Examples ==
    Sanitized =>
        /\ uInput = <<>> => uOut = S_unnamed_resource
        /\ uInput = Ex_123abc =>
               uOut = <<"r", "e", "s", "o", "u", "r", "c", "e", "_",
                        "1", "2", "3", "a", "b", "c">>
        /\ uInput = Ex_MyGroupProd =>
               uOut = <<"m", "y", "_", "g", "r", "o", "u", "p", "_",
                        "p", "r", "o", "d">>

\* C5 witness: "My Group (prod)" has been sanitized.
C5_Witness == uPhase = "sanitized" /\ uInput = Ex_MyGroupProd /\ Len(uOut) = 13

\* C6: a reference is "netbird_", the kind, ".", the name and ".id", in
\* that order, for every kind and name; ("group", "eng") gives
\* "netbird_group.eng.id".
C6_ReferenceShape ==
    uPhase = "referenced" =>
        LET k == Len(uKind)
            n == Len(uInput)
        IN  /\ Len(uRef) = 8 + k + 1 + n + 3
            /\ SubSeq(uRef, 1, 8) = <<"n", "e", "t", "b", "i", "r", "d", "_">>
            /\ SubSeq(uRef, 9, 8 + k) = uKind
            /\ uRef[9 + k] = "."
            /\ SubSeq(uRef, 10 + k, 9 + k + n) = uInput
            /\ SubSeq(uRef, 10 + k + n, 12 + k + n) = <<".", "i", "d">>
            /\ (uKind = S_group /\ uInput = Ex_eng) =>
                   uRef = <<"n", "e", "t", "b", "i", "r", "d", "_", "g", "r", "o",
                            "u", "p", ".", "e", "n", "g", ".", "i", "d">>

\* C6 witness: the reference of ("group", "eng") has been built.
C6_Witness ==
    uPhase = "referenced" /\ uKind = S_group /\ uInput = Ex_eng /\ Len(uRef) = 20

\* ------------------------------------------------ claims on the collectors

IsGroup(r) == r.Type = S_group
IsUser(r) == r.Type = S_user
IsPolicy(r) == r.Type = S_policy

GroupResources == SelectSeq(resources, IsGroup)
UserResources == SelectSeq(resources, IsUser)
PolicyResources == SelectSeq(resources, IsPolicy)

\* Where main() is once the collectors have returned and the files of the
\* kinds are written or refused.
Generated == {"group_mapping", "import_script", "auto_import", "import", "done", "fatal"}

UsersDone == pc \in {"policies", "routes", "generate"} \cup Generated
PoliciesDone == pc \in {"routes", "generate"} \cup Generated

Ref_eng_team ==
    <<"n", "e", "t", "b", "i", "r", "d", "_", "g", "r", "o", "u", "p", ".",
      "e", "n", "g", "_", "t", "e", "a", "m", ".", "i", "d">>

\* The outcome of the end-to-end example: a group resource named "eng_team"
\* and a user resource named "alice" whose auto_groups is the one reference.
EndToEndOutcome ==
    /\ \E i \in 1..Len(resources) :
           /\ resources[i].Type = S_group
           /\ resources[i].Name = <<"e", "n", "g", "_", "t", "e", "a", "m">>
    /\ \E i \in 1..Len(resources) :
           /\ resources[i].Type = S_user
           /\ resources[i].Name = <<"a", "l", "i", "c", "e">>
           /\ "auto_groups" \in DOMAIN resources[i].Attributes
           /\ resources[i].Attributes["auto_groups"] = <<Ref_eng_team>>

OneEngTeamGroup ==
    /\ remote.groups.ok
    /\ Len(remote.groups.items) = 1
    /\ remote.groups.items[1].ID = <<"g", "1">>
    /\ remote.groups.items[1].Name = N_EngTeam

\* One user u1 named Alice with auto_groups [g1], not a service user, with
\* the given email.
OneAliceUser(email) ==
    /\ remote.users.ok
    /\ Len(remote.users.items) = 1
    /\ remote.users.items[1].ID = <<"u", "1">>
    /\ remote.users.items[1].Name = N_Alice
    /\ remote.users.items[1].Email = email
    /\ remote.users.items[1].AutoGroups = <<(<<"g", "1">>)>>
    /\ ~remote.users.items[1].IsServiceUser

\* C7 as stated: one group g1 "Eng Team" and one user u1 "Alice" with
\* auto_groups [g1], no email, not a service user: the pass adds the group
\* "eng_team" and the user "alice" with auto_groups [netbird_group.eng_team.id].
C7_EndToEnd_Original ==
    (UsersDone /\ OneEngTeamGroup /\ OneAliceUser(<<>>)) => EndToEndOutcome

\* C7 amended: the same, for a user that has an email address.
C7_EndToEnd ==
    (UsersDone /\ OneEngTeamGroup /\ OneAliceUser(N_Email)) => EndToEndOutcome

\* C7 witness: the pass has collected the group and the user with an email.
C7_Witness ==
    /\ pc = "generate"
    /\ OneEngTeamGroup
    /\ OneAliceUser(N_Email)
    /\ Len(UserResources) = 1

\* The claim's test of a user record: an email, or a named service user.
UserWanted(user) ==
    \/ user.Email /= <<>>
    \/ user.IsServiceUser /\ user.Name /= <<>>

\* C8: the user collector adds a resource for exactly the fetched records
\* that have an email or are service users with a name, in their order.
C8_UserFilter ==
    (UsersDone /\ remote.users.ok) =>
        LET wanted == SelectSeq(remote.users.items, UserWanted)
        IN  /\ Len(UserResources) = Len(wanted)
            /\ \A i \in 1..Len(wanted) : UserResources[i].Attributes.id = wanted[i].ID

\* C8 witness: of two fetched users, a service user with a name and no
\* email was added and a plain user without email was not.
C8_Witness ==
    /\ UsersDone
    /\ remote.users.ok
    /\ Len(remote.users.items) = 2
    /\ remote.users.items[1].Email = <<>>
    /\ ~remote.users.items[1].IsServiceUser
    /\ remote.users.items[2].Email = <<>>
    /\ remote.users.items[2].IsServiceUser
    /\ remote.users.items[2].Name /= <<>>
    /\ Len(UserResources) = 1
    /\ UserResources[1].Attributes.id = <<"u", "2">>

\* The fetched user a user resource was generated from.
UserOf(r) == CHOOSE u \in {remote.users.items[i] : i \in 1..Len(remote.users.items)} :
                 u.ID = r.Attributes.id

\* C9: a generated user's auto_groups has the length and order of the
\* source list, a mapped ID replaced by its group reference and any other
\* kept as it is; without auto-groups the key is absent.
C9_AutoGroups ==
    UsersDone =>
        \A k \in 1..Len(UserResources) :
            LET attrs == UserResources[k].Attributes
                src == UserOf(UserResources[k]).AutoGroups
            IN  IF src = <<>> THEN "auto_groups" \notin DOMAIN attrs
                ELSE /\ "auto_groups" \in DOMAIN attrs
                     /\ Len(attrs["auto_groups"]) = Len(src)
                     /\ \A i \in 1..Len(src) :
                            attrs["auto_groups"][i] =
                                IF src[i] \in DOMAIN idToResourceName
                                THEN S_netbird_ \o S_group \o <<".">>
                                     \o idToResourceName[src[i]] \o S_dot_id
                                ELSE src[i]

\* C9 witness: a user whose auto-groups are an ID outside the mapping and
\* then an ID inside it has been generated.
C9_Witness ==
    /\ UsersDone
    /\ Len(UserResources) >= 1
    /\ UserOf(UserResources[1]).AutoGroups = <<ID_g9, ID_g1>>
    /\ ID_g1 \in DOMAIN idToResourceName
    /\ UserResources[1].Attributes["auto_groups"][1] = ID_g9

\* The fetched policy a policy resource was generated from.
PolicyOf(r) ==
    CHOOSE p \in {remote.policies.items[i] : i \in 1..Len(remote.policies.items)} :
        p.ID = r.Attributes.id

\* The reference the claim gives a rule's source or destination entry.
ExpectedRuleRef(entry) ==
    S_netbird_ \o S_group \o <<".">>
    \o (IF entry.ID \in DOMAIN idToResourceName
        THEN idToResourceName[entry.ID]
        ELSE SanitizeResourceName(entry.Name))
    \o S_dot_id

\* The claim for one list of a rule (its sources or its destinations).
RuleListAsClaimed(ruleMap, key, src) ==
    src /= <<>> =>
        /\ key \in DOMAIN ruleMap
        /\ Len(ruleMap[key]) = Len(src)
        /\ \A i \in 1..Len(src) :
               /\ ruleMap[key][i] = ExpectedRuleRef(src[i])
               /\ ruleMap[key][i] /= src[i].ID

\* C10: every fetched policy is generated, and a rule's non-empty sources
\* (destinations) become a list of the same length and order of group
\* references: of the mapped name, else of the sanitized entry name.
C10_RuleGroupRefs ==
    (PoliciesDone /\ remote.policies.ok) =>
        /\ Len(PolicyResources) = Len(remote.policies.items)
        /\ \A k \in 1..Len(PolicyResources) :
               LET attrs == PolicyResources[k].Attributes
                   rules == PolicyOf(PolicyResources[k]).Rules
               IN  rules /= <<>> =>
                       /\ Len(attrs["rules"]) = Len(rules)
                       /\ \A j \in 1..Len(rules) :
                              /\ RuleListAsClaimed(attrs["rules"][j], "sources",
                                                   rules[j].Sources)
                              /\ RuleListAsClaimed(attrs["rules"][j], "destinations",
                                                   rules[j].Destinations)

Ref_ops_team ==
    <<"n", "e", "t", "b", "i", "r", "d", "_", "g", "r", "o", "u", "p", ".",
      "o", "p", "s", "_", "t", "e", "a", "m", ".", "i", "d">>

\* C10 witness: a rule whose sources are a mapped and then an unmapped
\* group has been generated, the unmapped one named from its display name.
C10_Witness ==
    /\ pc = "routes"
    /\ ID_g1 \in DOMAIN idToResourceName
    /\ Len(PolicyResources) >= 1
    /\ PolicyOf(PolicyResources[1]).Rules /= <<>>
    /\ Len(PolicyOf(PolicyResources[1]).Rules[1].Sources) = 2
    /\ PolicyOf(PolicyResources[1]).Rules[1].Sources[2].ID = ID_g9
    /\ PolicyResources[1].Attributes["rules"][1]["sources"][2] = Ref_ops_team

IsRoute(r) == r.Type = S_route
RouteResources == SelectSeq(resources, IsRoute)
RoutesDone == pc \in {"generate"} \cup Generated

\* The fetched route a route resource was generated from.
RouteOf(r) ==
    CHOOSE x \in {remote.routes.items[i] : i \in 1..Len(remote.routes.items)} :
        x.ID = r.Attributes.id

\* The groups the route collector fetched for its own mapping.
RouteGroupsFetched ==
    {remote.routeGroups.items[i] : i \in 1..Len(remote.routeGroups.items)}

IsRouteGroupID(id) == \E g \in RouteGroupsFetched : g.ID = id

\* The claim for one list of a route (its Groups or its PeerGroups): the
\* IDs of fetched groups, in order, each as the reference of that group.
RouteListAsClaimed(refs, src) ==
    LET kept == SelectSeq(src, IsRouteGroupID)
    IN  /\ Len(refs) = Len(kept)
        /\ \A i \in 1..Len(kept) :
               /\ \E g \in RouteGroupsFetched :
                      /\ g.ID = kept[i]
                      /\ refs[i] = S_netbird_ \o S_group \o <<".">>
                                   \o SanitizeResourceName(g.Name) \o S_dot_id
               /\ \A j \in 1..Len(src) : refs[i] /= src[j]

\* C11: every fetched route is generated, and its groups (peer_groups) is
\* the in-order sub-list of the source Groups (PeerGroups) IDs that the
\* route collector's own mapping holds, each as its group reference; an ID
\* the mapping lacks is left out, never kept raw.
C11_RouteGroupRefs ==
    (RoutesDone /\ remote.routeGroups.ok /\ remote.routes.ok) =>
        /\ Len(RouteResources) = Len(remote.routes.items)
        /\ \A k \in 1..Len(RouteResources) :
               LET attrs == RouteResources[k].Attributes
                   route == RouteOf(RouteResources[k])
               IN  /\ RouteListAsClaimed(attrs.groups, route.Groups)
                   /\ RouteListAsClaimed(attrs.peer_groups, route.PeerGroups)

\* C11 witness: a route whose Groups are an ID outside the mapping and then
\* an ID inside it has been generated with the one reference.
C11_Witness ==
    /\ RoutesDone
    /\ Len(RouteResources) >= 1
    /\ RouteOf(RouteResources[1]).Groups = <<ID_g9, ID_g1>>
    /\ RouteResources[1].Attributes.groups = <<Ref_eng_team>>
    /\ RouteResources[1].Attributes.peer_groups = <<Ref_eng_team>>

GroupsDone == pc \notin {"off", "groups"}

\* The fetched group a group resource was generated from.
GroupOf(r) ==
    CHOOSE g \in {remote.groups.items[i] : i \in 1..Len(remote.groups.items)} :
        g.ID = r.Attributes.id

\* A display name that is empty or of which sanitization leaves nothing.
CollapsesToEmpty(name) ==
    TrimUnderscores(CollapseUnderscores(ToLower(ReplaceSpecials(name)))) = <<>>

\* The symbolic name the claim gives a record of the kind with this prefix.
NameOrIDName(prefix, record) ==
    IF CollapsesToEmpty(record.Name) THEN prefix \o record.ID
    ELSE SanitizeResourceName(record.Name)

\* C12: a group (policy) whose display name is empty or collapses to empty
\* under sanitization is named "group_" + ID ("policy_" + ID); any other is
\* named SanitizeResourceName(name).
C12_FallbackNames ==
    /\ GroupsDone =>
           \A k \in 1..Len(GroupResources) :
               GroupResources[k].Name = NameOrIDName(S_group_, GroupOf(GroupResources[k]))
    /\ PoliciesDone =>
           \A k \in 1..Len(PolicyResources) :
               PolicyResources[k].Name =
                   NameOrIDName(S_policy_, PolicyOf(PolicyResources[k]))

\* The symbolic name the claim's chain gives a route.
RouteNameAsClaimed(route) ==
    IF ~CollapsesToEmpty(route.NetworkID) THEN SanitizeResourceName(route.NetworkID)
    ELSE IF ~CollapsesToEmpty(route.Network) THEN SanitizeResourceName(route.Network)
    ELSE S_route_ \o route.ID

\* C13: a route is named SanitizeResourceName(network_id); without a
\* network_id it is named SanitizeResourceName(network); without either it
\* is named "route_" + ID.
C13_RouteNameChain ==
    RoutesDone =>
        \A k \in 1..Len(RouteResources) :
            RouteResources[k].Name = RouteNameAsClaimed(RouteOf(RouteResources[k]))

\* C14: a generated user is named SanitizeResourceName(name) when it has a
\* name; without a name it is named SanitizeResourceName("admin_user_" + ID)
\* when its role is exactly "admin" and SanitizeResourceName("user_" + ID)
\* for any other role, the empty one included.
C14_UserNames ==
    UsersDone =>
        \A k \in 1..Len(UserResources) :
            LET user == UserOf(UserResources[k])
            IN  UserResources[k].Name =
                    IF user.Name /= <<>> THEN SanitizeResourceName(user.Name)
                    ELSE IF user.Role = <<"a", "d", "m", "i", "n">>
                         THEN SanitizeResourceName(
                                  <<"a", "d", "m", "i", "n", "_", "u", "s", "e", "r", "_">>
                                  \o user.ID)
                         ELSE SanitizeResourceName(<<"u", "s", "e", "r", "_">> \o user.ID)

\* C14 witness: two users without a name have been generated, an "admin"
\* and an "Admin", their IDs lower-cased in the names.
C14_Witness ==
    /\ UsersDone
    /\ Len(UserResources) = 2
    /\ UserOf(UserResources[1]).Name = <<>>
    /\ UserOf(UserResources[1]).Role = S_admin
    /\ UserOf(UserResources[2]).Name = <<>>
    /\ UserOf(UserResources[2]).Role = N_Admin
    /\ UserResources[1].Name =
           <<"a", "d", "m", "i", "n", "_", "u", "s", "e", "r", "_", "u", "1">>
    /\ UserResources[2].Name = <<"u", "s", "e", "r", "_", "u", "2">>

\* C15: every fetched group is generated with the attributes id and name;
\* it has the attribute resources exactly when a nested resource entry has
\* a non-empty ID, the value being those IDs in order; it has no other
\* attribute, whatever its peers.
C15_GroupAttributes ==
    (GroupsDone /\ remote.groups.ok) =>
        /\ Len(GroupResources) = Len(remote.groups.items)
        /\ \A k \in 1..Len(GroupResources) :
               LET attrs == GroupResources[k].Attributes
                   group == remote.groups.items[k]
                   ids == [i \in 1..Len(group.Resources) |-> group.Resources[i].ID]
                   IsID(id) == id /= <<>>
               IN  /\ DOMAIN attrs \subseteq {"id", "name", "resources"}
                   /\ attrs.id = group.ID
                   /\ attrs.name = group.Name
                   /\ "resources" \in DOMAIN attrs <=> (\E i \in 1..Len(ids) : ids[i] /= <<>>)
                   /\ "resources" \in DOMAIN attrs =>
                          attrs["resources"] = SelectSeq(ids, IsID)

\* C15 witness: a group with a peer and the nested entries (no ID, "n1")
\* has been generated with resources ["n1"], a second one whose only entry
\* has no ID without the key.
C15_Witness ==
    /\ GroupsDone
    /\ Len(GroupResources) = 2
    /\ Len(remote.groups.items) = 2
    /\ remote.groups.items[1].Peers /= <<>>
    /\ Len(remote.groups.items[1].Resources) = 2
    /\ remote.groups.items[1].Resources[1].ID = <<>>
    /\ "resources" \in DOMAIN GroupResources[1].Attributes
    /\ GroupResources[1].Attributes["resources"] = <<N_res1>>
    /\ Len(remote.groups.items[2].Resources) = 1
    /\ "resources" \notin DOMAIN GroupResources[2].Attributes

\* A user generator of either main() has run.
AnyUsersDone == UsersDone \/ pc = "legacy_policies"

\* C16: every generated user, whichever generator made it, has id,
\* is_service_user and is_blocked with the source's values (is_blocked
\* also when it is false), and has email, name and role each exactly when
\* the source field is not empty.
C16_UserAttributes ==
    AnyUsersDone =>
        \A k \in 1..Len(UserResources) :
            LET attrs == UserResources[k].Attributes
                user == UserOf(UserResources[k])
            IN  /\ {"id", "is_service_user", "is_blocked"} \subseteq DOMAIN attrs
                /\ attrs.id = user.ID
                /\ attrs.is_service_user = user.IsServiceUser
                /\ attrs.is_blocked = user.IsBlocked
                /\ "email" \in DOMAIN attrs <=> user.Email /= <<>>
                /\ "name" \in DOMAIN attrs <=> user.Name /= <<>>
                /\ "role" \in DOMAIN attrs <=> user.Role /= <<>>

\* The claim for one optional key of a rule or policy: present exactly
\* when the source list is not empty.
KeyIffNonEmpty(map, key, src) == key \in DOMAIN map <=> src /= <<>>

\* The claim for one rule entry.
RuleEntryAsClaimed(entry, rule) ==
    /\ {"name", "description", "enabled", "action", "bidirectional", "protocol"}
           \subseteq DOMAIN entry
    /\ entry.name = rule.Name
    /\ entry.description = rule.Description
    /\ entry.enabled = rule.Enabled
    /\ entry.action = rule.Action
    /\ entry.bidirectional = rule.Bidirectional
    /\ entry.protocol = rule.Protocol
    /\ KeyIffNonEmpty(entry, "ports", rule.Ports)
    /\ "ports" \in DOMAIN entry => entry["ports"] = rule.Ports
    /\ KeyIffNonEmpty(entry, "port_ranges", rule.PortRanges)
    /\ "port_ranges" \in DOMAIN entry =>
           /\ Len(entry["port_ranges"]) = Len(rule.PortRanges)
           /\ \A i \in 1..Len(rule.PortRanges) :
                  LET range == entry["port_ranges"][i]
                  IN  /\ DOMAIN range = {"start", "end"}
                      /\ range["start"] \in Int /\ range["end"] \in Int
                      /\ range["start"] = rule.PortRanges[i].Start
                      /\ range["end"] = rule.PortRanges[i].End
    /\ KeyIffNonEmpty(entry, "sources", rule.Sources)
    /\ KeyIffNonEmpty(entry, "destinations", rule.Destinations)
    /\ KeyIffNonEmpty(entry, "source_resource", rule.SourceResource)
    /\ "source_resource" \in DOMAIN entry =>
           entry["source_resource"] =
               [id |-> rule.SourceResource[1].ID, type |-> rule.SourceResource[1].Type]
    /\ KeyIffNonEmpty(entry, "destination_resource", rule.DestinationResource)
    /\ "destination_resource" \in DOMAIN entry =>
           entry["destination_resource"] =
               [id |-> rule.DestinationResource[1].ID,
                type |-> rule.DestinationResource[1].Type]

\* C17: every generated policy has id, name, description and enabled;
\* source_posture_checks exactly when the source list is not empty; rules
\* exactly when it has a rule, one entry per rule in order; an entry always
\* has name, description, enabled, action, bidirectional and protocol, has
\* ports, port_ranges ({start, end} integer pairs), sources and
\* destinations each exactly when the source list is not empty, and
\* source_resource / destination_resource as {id, type} exactly when the
\* source reference is not null.
C17_PolicyAttributes ==
    PoliciesDone =>
        \A k \in 1..Len(PolicyResources) :
            LET attrs == PolicyResources[k].Attributes
                policy == PolicyOf(PolicyResources[k])
            IN  /\ {"id", "name", "description", "enabled"} \subseteq DOMAIN attrs
                /\ attrs.id = policy.ID
                /\ attrs.name = policy.Name
                /\ attrs.description = policy.Description
                /\ attrs.enabled = policy.Enabled
                /\ KeyIffNonEmpty(attrs, "source_posture_checks",
                                  policy.SourcePostureChecks)
                /\ KeyIffNonEmpty(attrs, "rules", policy.Rules)
                /\ "rules" \in DOMAIN attrs =>
                       /\ Len(attrs["rules"]) = Len(policy.Rules)
                       /\ \A j \in 1..Len(policy.Rules) :
                              RuleEntryAsClaimed(attrs["rules"][j], policy.Rules[j])

\* C17 witness: a policy with posture checks and one rule that has ports
\* and a source resource and has no port ranges, sources or destination
\* resource has been generated.
C17_Witness ==
    /\ PoliciesDone
    /\ Len(PolicyResources) = 1
    /\ "source_posture_checks" \in DOMAIN PolicyResources[1].Attributes
    /\ "rules" \in DOMAIN PolicyResources[1].Attributes
    /\ DOMAIN PolicyResources[1].Attributes["rules"][1] =
           {"name", "description", "enabled", "action", "bidirectional", "protocol",
            "ports", "destinations", "source_resource"}
    /\ PolicyResources[1].Attributes["rules"][1]["source_resource"] =
           [id |-> N_res1, type |-> N_host]

RouteKeys ==
    {"id", "description", "network_id", "network", "peer", "peer_groups", "metric",
     "masquerade", "enabled", "groups", "keep_route"}

IsList(x) == DOMAIN x = 1..Len(x)

\* C18: every generated route has exactly the eleven attributes id,
\* description, network_id, network, peer, peer_groups, metric, masquerade,
\* enabled, groups and keep_route, with the source's values; groups and
\* peer_groups are lists, empty when the source list is empty or every ID
\* was dropped, and never left out.
C18_RouteAttributes ==
    RoutesDone =>
        \A k \in 1..Len(RouteResources) :
            LET attrs == RouteResources[k].Attributes
                route == RouteOf(RouteResources[k])
            IN  /\ DOMAIN attrs = RouteKeys
                /\ Cardinality(DOMAIN attrs) = 11
                /\ attrs.id = route.ID
                /\ attrs.description = route.Description
                /\ attrs.network_id = route.NetworkID
                /\ attrs.network = route.Network
                /\ attrs.peer = route.Peer
                /\ attrs.metric = route.Metric
                /\ attrs.masquerade = route.Masquerade
                /\ attrs.enabled = route.Enabled
                /\ attrs.keep_route = route.KeepRoute
                /\ IsList(attrs.groups) /\ Len(attrs.groups) <= Len(route.Groups)
                /\ IsList(attrs.peer_groups)
                /\ Len(attrs.peer_groups) <= Len(route.PeerGroups)

\* C18 witness: two routes have been generated with eleven attributes, one
\* without groups and one whose only group ID was dropped, both with the
\* empty list.
C18_Witness ==
    /\ RoutesDone
    /\ Len(RouteResources) = 2
    /\ RouteOf(RouteResources[1]).Groups = <<>>
    /\ RouteOf(RouteResources[2]).Groups = <<ID_g9>>
    /\ RouteResources[1].Attributes.groups = <<>>
    /\ RouteResources[2].Attributes.groups = <<>>
    /\ RouteResources[2].Attributes.peer_groups = <<>>
    /\ Cardinality(DOMAIN RouteResources[2].Attributes) = 11

CollectorOrder == <<"groups", "users", "policies", "routes">>

\* C19: the group collector has run, and the users and the policies
\* handler hold its map, before a dependent collector starts; and once the
\* group collector has returned no entry of idToResourceName is added,
\* changed or removed.
C19_MappingReadOnly ==
    /\ [](pc \in {"users", "policies", "routes"} =>
             /\ importing = SubSeq(CollectorOrder, 1, Len(importing))
             /\ Len(importing) >= 1
             /\ usersMapped /\ policiesMapped)
    /\ [][pc /= "groups" => idToResourceName' = idToResourceName]_vars

\* C19 witness: the four collectors have run over a group, and the map
\* holds the group collector's one entry.
C19_Witness ==
    /\ pc = "generate"
    /\ importing = CollectorOrder
    /\ Len(GroupResources) = 1
    /\ Len(UserResources) = 1
    /\ DOMAIN idToResourceName = {ID_g1}

\* The one-element list when the condition holds, else the empty list.
ListIf(cond, x) == IF cond THEN <<x>> ELSE <<>>

\* The warnings of a pass whose collectors all ran.
WarningsAsClaimed ==
    ListIf(~remote.groups.ok, [msg |-> "failed to fetch groups", cause |-> remote.groups.err])
    \o ListIf(~remote.users.ok, [msg |-> "failed to fetch users", cause |-> remote.users.err])
    \o ListIf(~remote.policies.ok,
              [msg |-> "failed to fetch policies", cause |-> remote.policies.err])
    \o (IF ~remote.routeGroups.ok
        THEN <<[msg |-> "failed to fetch groups for route mapping",
                cause |-> remote.routeGroups.err]>>
        ELSE ListIf(~remote.routes.ok,
                    [msg |-> "failed to fetch routes", cause |-> remote.routes.err]))

\* The number of records a collector turns into resources: all of a
\* successful answer that pass its filter, none of a failed one.
Collected(resp, Keep(_)) == IF resp.ok THEN Len(SelectSeq(resp.items, Keep)) ELSE 0

AnyRecord(x) == TRUE

\* C20: whatever collectors fail, each collector is invoked once, in the
\* order group, user, policy, route; a failure only adds a warning; the
\* pass comes to file generation holding the resources of the collectors
\* that succeeded, and writes them; only the disk or terraform init ends
\* the program.
C20_WarnAndContinue ==
    /\ importing = SubSeq(CollectorOrder, 1, Len(importing))
    /\ (pc = "wire" => importing = <<"groups">>)
    /\ (pc = "policies" => importing = <<"groups", "users">>)
    /\ RoutesDone =>
           /\ importing = CollectorOrder
           /\ warnings = WarningsAsClaimed
           /\ Len(GroupResources) = Collected(remote.groups, AnyRecord)
           /\ Len(UserResources) = Collected(remote.users, UserWanted)
           /\ Len(PolicyResources) = Collected(remote.policies, AnyRecord)
           /\ Len(RouteResources) =
                  IF remote.routeGroups.ok THEN Collected(remote.routes, AnyRecord) ELSE 0
           /\ Len(resources) = Len(GroupResources) + Len(UserResources)
                               + Len(PolicyResources) + Len(RouteResources)
    /\ pc = "group_mapping" =>
           /\ DOMAIN files = {S_provider} \cup {resources[i].Type : i \in 1..Len(resources)}
           /\ S_group \in DOMAIN files => files[S_group] = GroupResources
           /\ S_user \in DOMAIN files => files[S_user] = UserResources
           /\ S_policy \in DOMAIN files => files[S_policy] = PolicyResources
           /\ S_route \in DOMAIN files => files[S_route] = RouteResources
    /\ pc = "fatal" =>
           \/ ~remote.disk.providerOk
           \/ \E i \in 1..Len(resources) : resources[i].Type = remote.disk.failing
           \/ remote.disk.failing \in {S_group_mappings, S_import}
           \/ \E i \in 1..Len(terraform) : terraform[i].op = "init" /\ ~terraform[i].ok

\* C20 witness: the group, the user and the route collector failed, the
\* policy collector did not, and the files were written with the policy.
C20_Witness ==
    /\ pc = "group_mapping"
    /\ ~remote.groups.ok /\ ~remote.users.ok /\ remote.policies.ok /\ ~remote.routes.ok
    /\ Len(warnings) = 3
    /\ Len(resources) = 1
    /\ DOMAIN files = {S_provider, S_policy}

\* ------------------------------------------------- claims on the failures

\* A rule's list holds the raw IDs of the source entries, in order.
RuleListRaw(ruleMap, key, src) ==
    src /= <<>> =>
        /\ key \in DOMAIN ruleMap
        /\ ruleMap[key] = [i \in 1..Len(src) |-> src[i].ID]

\* C21: when the group collector's fetch fails, the mapping handed to the
\* dependent collectors is empty, the users, policies and routes are still
\* generated, none of them loses a resource, and every group
\* cross-reference of a user, a policy rule and a route is the raw group ID.
C21_RawIDFallback ==
    (RoutesDone /\ ~remote.groups.ok) =>
        /\ idToResourceName = EmptyMap
        /\ Len(UserResources) = Collected(remote.users, UserWanted)
        /\ Len(PolicyResources) = Collected(remote.policies, AnyRecord)
        /\ Len(RouteResources) = Collected(remote.routes, AnyRecord)
        /\ \A k \in 1..Len(UserResources) :
               LET src == UserOf(UserResources[k]).AutoGroups
               IN  src /= <<>> => UserResources[k].Attributes["auto_groups"] = src
        /\ \A k \in 1..Len(PolicyResources) :
               LET attrs == PolicyResources[k].Attributes
                   rules == PolicyOf(PolicyResources[k]).Rules
               IN  rules /= <<>> =>
                       \A j \in 1..Len(rules) :
                           /\ RuleListRaw(attrs["rules"][j], "sources", rules[j].Sources)
                           /\ RuleListRaw(attrs["rules"][j], "destinations",
                                          rules[j].Destinations)
        /\ \A k \in 1..Len(RouteResources) :
               LET attrs == RouteResources[k].Attributes
                   route == RouteOf(RouteResources[k])
               IN  /\ attrs.groups = route.Groups
                   /\ attrs.peer_groups = route.PeerGroups

\* The number of calls of NetBirdService.Get with this path in a log.
CallsOf(log, path) == LET IsPath(x) == x = path IN Len(SelectSeq(log, IsPath))

\* The step of a collector whose fetch of its own kind fails: the error
\* "<msg>: <cause>" reaches main(), no resource is added, the mapping is
\* as it was, and the path was called once more.
FetchFailed(msg, path, resp) ==
    /\ warnings' = Append(warnings, [msg |-> msg, cause |-> resp.err])
    /\ resp.err /= ""
    /\ resources' = resources
    /\ idToResourceName' = idToResourceName
    /\ CallsOf(requests', path) = CallsOf(requests, path) + 1

\* C22: a collector whose fetch of its own kind fails returns the error
\* "failed to fetch <kind>: <cause>", adds no resource and (the group
\* collector) leaves the GroupIDMapping unchanged; the fetch is made once:
\* at the end of the collectors each kind's path was called once, the
\* groups path once by the group and once by the route collector.
C22_FetchFailure ==
    /\ [](RoutesDone =>
            /\ CallsOf(requests, "/api/groups") = 2
            /\ CallsOf(requests, "/api/users") = 1
            /\ CallsOf(requests, "/api/policies") = 1
            /\ CallsOf(requests, "/api/routes") = IF remote.routeGroups.ok THEN 1 ELSE 0)
    /\ [][/\ (pc = "groups" /\ ~remote.groups.ok) =>
                  FetchFailed("failed to fetch groups", "/api/groups", remote.groups)
          /\ (pc = "users" /\ ~remote.users.ok) =>
                  FetchFailed("failed to fetch users", "/api/users", remote.users)
          /\ (pc = "policies" /\ ~remote.policies.ok) =>
                  FetchFailed("failed to fetch policies", "/api/policies", remote.policies)
          /\ (pc = "routes" /\ remote.routeGroups.ok /\ ~remote.routes.ok) =>
                  FetchFailed("failed to fetch routes", "/api/routes", remote.routes)]_vars

\* C22 witness: the groups were fetched and generated, then the fetch of
\* the users failed: one call, one warning, no user resource, the mapping
\* as the group collector left it.
C22_Witness ==
    /\ pc = "policies"
    /\ remote.groups.ok /\ ~remote.users.ok
    /\ requests = <<"/api/groups", "/api/users">>
    /\ warnings = <<[msg |-> "failed to fetch users", cause |-> remote.users.err]>>
    /\ Len(GroupResources) = 2
    /\ UserResources = <<>>
    /\ DOMAIN idToResourceName = {ID_g1, ID_g2}

\* ------------------------------------------- claims on the reconciliation

\* terraform init was run and exited with zero.
InitSucceeded == terraform /= <<>> /\ terraform[1].op = "init" /\ terraform[1].ok

\* The terraform import commands run so far, in order.
ImportRuns == LET IsImportRun(c) == c.op = "import" IN SelectSeq(terraform, IsImportRun)

\* The imports that exited with zero.
ImportsOk == LET IsOk(c) == c.ok IN SelectSeq(ImportRuns, IsOk)

\* C23: once terraform init has succeeded, the import commands run are at
\* every moment the first commands of GetImportCommands, each once and in
\* list order, whatever their outcomes; a failure is only not counted as a
\* success; the step never ends the program, it ends when every command
\* has been attempted, and it does end.
C23_EveryImportAttempted ==
    /\ [](InitSucceeded =>
            LET importCommands == GetImportCommands(resources)
            IN  /\ Len(ImportRuns) <= Len(importCommands)
                /\ \A i \in 1..Len(ImportRuns) :
                       /\ ImportRuns[i].address = importCommands[i].ResourceAddress
                       /\ ImportRuns[i].id = importCommands[i].ResourceID
                /\ successCount = Len(ImportsOk)
                /\ pc \in {"import", "done"}
                /\ pc = "done" <=> Len(ImportRuns) = Len(importCommands))
    /\ (InitSucceeded ~> pc = "done")

\* C23 witness: of four import commands the first and the third failed, and
\* all four were attempted before main() ended normally.
C23_Witness ==
    /\ pc = "done"
    /\ InitSucceeded
    /\ Len(ImportRuns) = 4
    /\ ~ImportRuns[1].ok /\ ImportRuns[2].ok /\ ~ImportRuns[3].ok /\ ImportRuns[4].ok
    /\ successCount = 2

\* terraform init was run and exited with a non-zero status.
InitFailed == terraform /= <<>> /\ terraform[1].op = "init" /\ ~terraform[1].ok

Ended == pc \in {"done", "fatal"}

\* A file the pass writes is refused by the disk: provider.tf, the file of
\* a kind that has resources, group_mappings.json or import.sh.
FileWriteFails ==
    \/ ~remote.disk.providerOk
    \/ \E i \in 1..Len(resources) : resources[i].Type = remote.disk.failing
    \/ remote.disk.failing \in {S_group_mappings, S_import}

\* C25: a pass ends fatally if and only if the writing of a generated file
\* fails, or auto-import is enabled and terraform init fails; warnings of
\* collectors and failing imports leave the exit status as it is; after a
\* fatal file-write error no terraform command was run.
C25_FatalExit ==
    /\ Ended => (pc = "fatal" <=> (FileWriteFails \/ (remote.autoImport /\ InitFailed)))
    /\ (pc = "fatal" /\ FileWriteFails) => terraform = <<>>
    /\ pc = "fatal" => RoutesDone /\ importing = CollectorOrder

\* C25 witness: with auto-import enabled and four resources generated,
\* import.sh could not be written: the pass ended fatally and terraform
\* was never run.
C25_Witness ==
    /\ pc = "fatal"
    /\ remote.autoImport
    /\ remote.disk.failing = S_import
    /\ Len(resources) = 4
    /\ DOMAIN files = {S_provider, S_group, S_user, S_policy, S_route, S_group_mappings}
    /\ terraform = <<>>

\* ---------------------------------------------- claims on the group names

\* C26: resources are not merged by symbolic name. Of the groups g1 "Eng"
\* and g2 "eng" the group collector adds two resources named "eng", g1's
\* first, and maps both IDs to "eng"; in general each fetched group is one
\* resource, in the order fetched, and at the end of the collectors the
\* Writer holds one resource per record that a collector added.
C26_NoMergeByName ==
    /\ (GroupsDone /\ remote.groups = OkResp(WithIDs(<<GroupBody(N_Eng), GroupBody(Ex_eng)>>, "g"))) =>
           /\ Len(GroupResources) = 2
           /\ GroupResources[1].Name = Ex_eng /\ GroupResources[1].Attributes.id = ID_g1
           /\ GroupResources[2].Name = Ex_eng /\ GroupResources[2].Attributes.id = ID_g2
           /\ idToResourceName = (ID_g1 :> Ex_eng) @@ (ID_g2 :> Ex_eng)
    /\ (GroupsDone /\ remote.groups.ok) =>
           /\ Len(GroupResources) = Len(remote.groups.items)
           /\ \A k \in 1..Len(GroupResources) :
                  GroupResources[k].Attributes.id = remote.groups.items[k].ID
    /\ RoutesDone =>
           Len(resources) =
               Collected(remote.groups, AnyRecord) + Collected(remote.users, UserWanted)
               + Collected(remote.policies, AnyRecord)
               + (IF remote.routeGroups.ok THEN Collected(remote.routes, AnyRecord) ELSE 0)

\* C26 witness: the groups "Eng" and "eng" were fetched, and the Writer
\* holds two group resources of one name and two IDs.
C26_Witness ==
    /\ pc = "wire"
    /\ Len(resources) = 2
    /\ resources[1].Name = resources[2].Name
    /\ resources[1].Name = <<"e", "n", "g">>
    /\ resources[1].Attributes.id /= resources[2].Attributes.id
    /\ remote.groups.items[1].Name = <<"E", "n", "g">>

\* ------------------------------------------------ claims on EscapeString

\* The two characters the claim gives for one character.
EscapedChar(c) ==
    IF c = Backslash THEN <<Backslash, Backslash>>
    ELSE IF c = DoubleQuote THEN <<Backslash, DoubleQuote>>
    ELSE IF c = Newline THEN <<Backslash, "n">>
    ELSE IF c = Tab THEN <<Backslash, "t">>
    ELSE <<c>>

\* Each character of a string replaced on its own.
RECURSIVE EscapedCharwise(_)
EscapedCharwise(s) ==
    IF s = <<>> THEN <<>> ELSE EscapedChar(Head(s)) \o EscapedCharwise(Tail(s))

\* The standard unescaping: a backslash and the character after it are
\* read together, from left to right.
RECURSIVE Unescape(_)
Unescape(s) ==
    IF s = <<>> THEN <<>>
    ELSE IF Head(s) = Backslash /\ Len(s) >= 2
    THEN (IF s[2] = "n" THEN <<Newline>>
          ELSE IF s[2] = "t" THEN <<Tab>>
          ELSE <<s[2]>>) \o Unescape(Tail(Tail(s)))
    ELSE <<Head(s)>> \o Unescape(Tail(s))

\* A string read from left to right, a backslash together with the
\* character after it, holds a double-quote that is not so escaped.
RECURSIVE HasRawQuote(_)
HasRawQuote(s) ==
    IF s = <<>> THEN FALSE
    ELSE IF Head(s) = Backslash /\ Len(s) >= 2 THEN HasRawQuote(Tail(Tail(s)))
    ELSE Head(s) = DoubleQuote \/ HasRawQuote(Tail(s))

\* A newline or a tab anywhere, or a double-quote that is not escaped.
HasRaw(s) == (\E i \in 1..Len(s) : s[i] \in {Newline, Tab}) \/ HasRawQuote(s)

\* C27: EscapeString(s) is s with each backslash, double-quote, newline and
\* tab replaced by its two-character sequence and every other character
\* kept: a backslash it introduces is not escaped again; unescaping the
\* output gives s back, so that no two inputs have one output; the
\* output holds no newline, no tab and no double-quote without its backslash.
C27_EscapeRoundTrip ==
    uPhase = "escaped" =>
        /\ uOut = EscapedCharwise(uInput)
        /\ Unescape(uOut) = uInput
        /\ ~HasRaw(uOut)

\* C27 witness: a backslash followed by a double-quote and a newline was
\* escaped to six characters.
C27_Witness ==
    /\ uPhase = "escaped"
    /\ uInput = <<Backslash, DoubleQuote, Newline>>
    /\ uOut = <<Backslash, Backslash, Backslash, DoubleQuote, Backslash, "n">>

\* ---------------------------------------------- claims on the two mappings

\* C28: when /api/groups answers the route collector what it answered the
\* group collector, the map the route collector builds is the map the
\* group collector exports: the same IDs, each with the same name.
C28_MappingsAgree ==
    (RoutesDone /\ remote.groups.ok /\ remote.routeGroups = remote.groups) =>
        /\ DOMAIN groupIDToResourceName = DOMAIN idToResourceName
        /\ \A id \in DOMAIN idToResourceName :
               groupIDToResourceName[id] = idToResourceName[id]
        /\ DOMAIN idToResourceName =
               {remote.groups.items[i].ID : i \in 1..Len(remote.groups.items)}

\* C28 witness: two groups were fetched twice, the first with an empty
\* name; both maps name it "unnamed_resource".
C28_Witness ==
    /\ RoutesDone
    /\ remote.groups.ok
    /\ remote.routeGroups = remote.groups
    /\ Len(remote.groups.items) = 2
    /\ remote.groups.items[1].Name = <<>>
    /\ DOMAIN groupIDToResourceName = {ID_g1, ID_g2}
    /\ groupIDToResourceName[ID_g1] = S_unnamed_resource
    /\ idToResourceName[ID_g1] = S_unnamed_resource

\* The reference of a group resource the Writer holds.
IsAddedGroupRef(ref) ==
    \E k \in 1..Len(GroupResources) :
        ref = S_netbird_ \o S_group \o <<".">> \o GroupResources[k].Name \o S_dot_id

\* C29: at the end of the collectors, whichever fetches failed, every
\* reference in a route's groups or peer_groups is the reference of a group
\* resource that was added to the Writer in the pass.
C29_RouteRefsResolve ==
    RoutesDone =>
        \A k \in 1..Len(RouteResources) :
            LET attrs == RouteResources[k].Attributes
            IN  /\ \A i \in 1..Len(attrs.groups) : IsAddedGroupRef(attrs.groups[i])
                /\ \A i \in 1..Len(attrs.peer_groups) :
                       IsAddedGroupRef(attrs.peer_groups[i])

\* C30: when the route collector's own fetch of the groups fails, its step
\* ends with the error of that fetch and without a call of /api/routes;
\* no route resource is in the Writer then or later in the pass, whatever
\* /api/routes would have answered and whatever the group collector's
\* fetch gave.
C30_NoRoutesWithoutGroups ==
    /\ []((RoutesDone /\ ~remote.routeGroups.ok) =>
            /\ RouteResources = <<>>
            /\ CallsOf(requests, "/api/routes") = 0
            /\ requests[Len(requests)] = "/api/groups"
            /\ warnings[Len(warnings)] =
                   [msg |-> "failed to fetch groups for route mapping",
                    cause |-> remote.routeGroups.err])
    /\ [][(pc = "routes" /\ ~remote.routeGroups.ok) =>
              /\ resources' = resources
              /\ requests' = Append(requests, "/api/groups")]_vars

\* C30 witness: the group collector fetched its groups and /api/routes
\* holds a route, but the route collector's fetch of the groups failed: the
\* Writer holds groups and no route, and /api/routes was not called.
C30_Witness ==
    /\ pc = "generate"
    /\ remote.groups.ok /\ ~remote.routeGroups.ok
    /\ remote.routes.ok /\ Len(remote.routes.items) = 1
    /\ Len(GroupResources) >= 1
    /\ RouteResources = <<>>
    /\ CallsOf(requests, "/api/routes") = 0

====
